---------------------------- MODULE Spec2Model ----------------------------
(***************************************************************************)
(* A model of mc4go: counters published through a memory-mapped file.      *)
(*                                                                         *)
(* The file image is the metadata section (one id-status word, one label   *)
(* length and one label region per slot) and the values section (one       *)
(* 64-bit value per slot).  Writer goroutines run Writer.AddCounter...,    *)
(* Counter.Close and Counter.Set on one shared Writer; a reader runs       *)
(* Decoder.ForEachCounter, GetCounterValue and GetCounterLabel.  Every     *)
(* access of the mapped memory is one step, so the steps of the            *)
(* goroutines interleave as the accesses of the program do under           *)
(* sequentially consistent memory.                                         *)
(***************************************************************************)
EXTENDS Integers, Sequences, FiniteSets, TLC

VARIABLES
    cfg,        \* the configuration of the run: maxCounters, writers, maxAdds
    idStatus,   \* metadata: slot index -> id-status word
    labelLen,   \* metadata: slot index -> label length field
    labelMem,   \* metadata: slot index -> bytes of the label region written so far
    values,     \* values section: slot index -> 64-bit value
    idSequence, \* Writer.idSequence
    counters,   \* the Counter handles made so far: id -> Counter struct
    thr,        \* writer goroutine -> its position and locals
    rd,         \* the reader's position and locals
    emitted,    \* what the consumer of ForEachCounter received in this call
    rdResult,   \* what the last GetCounterValue/GetCounterLabel returned
    issued,     \* history: the ids in the order idSequence issued them
    hist,       \* history: id -> what the counter was added with and held
    sets,       \* history: the number of Counter.Set calls so far
    fileOnDisk, \* the counters file at its path: "absent", "empty" or "sized"
    header,     \* header section: version, section lengths, pid, start time
    statics,    \* statics section: byte offset -> byte
    ctor,       \* process -> its position and locals in NewWriterForFile
    opener,     \* the position and locals of NewReaderForFile, and its result
    wclose,     \* Writer.closed, the unmaps done, and the callers of Writer.Close
    usr,        \* goroutine using Counters -> its position, locals and returns
    log,        \* history: the updates of a counter's value in the order they took effect
    opts        \* the cli.Options of the program, and what its last Parse returned

\* The file outside the counters' sections, and the construction and the
\* closing of the Writer and of the Reader.
lifeVars == <<fileOnDisk, header, statics, ctor, opener, wclose>>

\* The programs that use the Counters: their goroutines, the history of
\* these, and their command line options.
userVars == <<usr, log, opts>>

vars == <<cfg, idStatus, labelLen, labelMem, values, idSequence, counters,
          thr, rd, emitted, rdResult, issued, hist, sets, lifeVars, userVars>>

-----------------------------------------------------------------------------
(* Bounds of the model.                                                    *)

\* The largest maxNumbersOfCounters of the concurrent runs.
MaxCounters == 2
\* The number of AddCounter calls of a concurrent run with a reader.
MaxAdds == 2
\* The number of AddCounter calls of a concurrent run of the writers alone.
MaxWriterAdds == 3
\* The largest maxNumbersOfCounters of the sequential runs.
SeqMaxCounters == 2
\* The number of AddCounter calls of a sequential run.
SeqMaxAdds == 4

\* The writer goroutines of a concurrent run (gen0 and gen1 of the test).
Writers == {1, 2}
\* The number of Counter.Set calls of a run.
MaxSets == 1

\* What the callers pass for the counter that is issued id, as the test's
\* callers pass counter{i} and i: a label of two bytes or one, told apart
\* from every other id's, the initial value id, and the value they set.
LabelFor(id) == [i \in 1 .. 2 - (id % 2) |-> 97 + id]
InitialValueFor(id) == id
SetValueFor(id) == 100 + id

-----------------------------------------------------------------------------
(* Layout constants and helpers.                                           *)

sizeOfInt32 == 4
sizeOfCacheLine == 64

metadataLabelMaxLength == sizeOfCacheLine * 6 - sizeOfInt32
metadataCounterIDStatusOffset == 0
metadataLabelLengthOffset == sizeOfCacheLine * 2
metadataLabelOffset == metadataLabelLengthOffset + sizeOfInt32
metadataRecordLength == metadataLabelOffset + metadataLabelMaxLength
valuesCounterLength == sizeOfCacheLine * 2

counterStatusNotUsed == 0
counterStatusAllocationInProgress == 1
counterStatusAllocated == 2
counterStatusFreed == 3

\* int64(uint64(id)<<8 | uint64(status)), for the ids of the model (0 <= id < 2^55)
makeIDStatus(id, status) == id * 256 + status
\* uint8(idStatus & 0xff)
extractStatus(w) == w % 256
\* int64(uint64(idStatus) >> 8)
extractID(w) == w \div 256

MetadataLength(numberOfCounters) == numberOfCounters * metadataRecordLength
ValuesLength(numberOfCounters) == numberOfCounters * valuesCounterLength

\* The metadata slot that starts at byte offset off of the metadata section,
\* and the values slot that starts at byte offset off of the values section.
MetaSlot(off) == off \div metadataRecordLength
ValueSlot(off) == off \div valuesCounterLength

Slots == 0 .. (cfg.maxCounters - 1)

Min(a, b) == IF a < b THEN a ELSE b
Max(a, b) == IF a > b THEN a ELSE b

\* A label region is kept as long as its longest write; the bytes behind it
\* are the zeros of the fresh mapping.
ByteAt(region, k) == IF k <= Len(region) THEN region[k] ELSE 0

\* Buffer.PutSomeBytes on a label region: copy(dest, bs[start:start+len]).
\* The copy is not atomic and no lock covers it: it moves one byte a step.
\* This is the region after the k-th byte of the copy is moved.
PutSomeBytes(region, bs, start, k) ==
    [i \in 1 .. Max(Len(region), k) |->
        IF i = k THEN bs[start + k] ELSE ByteAt(region, i)]

\* Buffer.GetBytes / GetString on a label region: copy(bs, src), a byte a
\* step.  This is the copy bs after its next byte is moved.
GetBytes(region, bs) == Append(bs, ByteAt(region, Len(bs) + 1))

-----------------------------------------------------------------------------
(* The header and the statics section.                                     *)

CountersVersion == 1
sizeOfInt64 == 8

\* (v + alignment - 1) &^ (alignment - 1), alignment a power of 2
Align(v, alignment) == ((v + alignment - 1) \div alignment) * alignment

headerCountersVersionOffset == 0
headerStaticsLengthOffset == headerCountersVersionOffset + sizeOfInt32
headerMetadataLengthOffset == headerStaticsLengthOffset + sizeOfInt32
headerValuesLengthOffset == headerMetadataLengthOffset + sizeOfInt32
headerPidOffsert == headerValuesLengthOffset + sizeOfInt32
headerStartTimeOffsert == headerPidOffsert + sizeOfInt64
HeaderLength == Align(headerStartTimeOffsert + sizeOfInt64, sizeOfCacheLine * 2)

staticsNumberOfStaticsOffset == 0
staticsRecordsOffset == staticsNumberOfStaticsOffset + sizeOfInt32
staticsLabelLengthOffset == 0
staticsValueLengthOffset == staticsLabelLengthOffset + sizeOfInt32
staticsLabelOffset == staticsValueLengthOffset + sizeOfInt32
staticsRecordLength(labelLength, valueLength) ==
    Align(staticsLabelOffset + labelLength + valueLength, sizeOfInt32)

\* A statics map: label -> value, both byte strings.  No statics:
NoStatics == [l \in {} |-> <<>>]

\* Shorter labels first, labels of one length in byte order.
ShorterFirst(a, b) ==
    \/ Len(a) < Len(b)
    \/ /\ Len(a) = Len(b)
       /\ \E k \in 1 .. Len(a) :
            /\ a[k] < b[k]
            /\ \A j \in 1 .. (k - 1) : a[j] = b[j]

\* The order of sort.Strings: byte-wise lexicographic.
BytesLess(a, b) ==
    \/ \E k \in 1 .. Min(Len(a), Len(b)) :
            /\ a[k] < b[k]
            /\ \A j \in 1 .. (k - 1) : a[j] = b[j]
    \/ /\ Len(a) < Len(b)
       /\ \A j \in 1 .. Len(a) : a[j] = b[j]

\* labels: the keys of the map, after sort.Strings(labels)
RECURSIVE SortedLabels(_)
SortedLabels(ls) ==
    IF ls = {} THEN <<>>
    ELSE LET least == CHOOSE l \in ls : \A m \in ls \ {l} : BytesLess(l, m)
         IN <<least>> \o SortedLabels(ls \ {least})

RECURSIVE RecordsLength(_, _)
RecordsLength(m, labels) ==
    IF labels = <<>> THEN 0
    ELSE staticsRecordLength(Len(Head(labels)), Len(m[Head(labels)]))
         + RecordsLength(m, Tail(labels))

StaticsLength(m) ==
    IF DOMAIN m = {} THEN staticsRecordsOffset
    ELSE Align(staticsRecordsOffset + RecordsLength(m, SortedLabels(DOMAIN m)),
               sizeOfCacheLine * 2)

\* os.Getpid() and the start time of the writer's process.
ThePid == 7
TheStartTime == 9

\* The locals of NewWriterForFile before its first step.
IdleCtor == [pc |-> "start", err |-> "none", labels |-> <<>>, offset |-> 0,
             sawFile |-> FALSE]

\* What the last ForEachStatic or GetStaticValue call gave: nothing yet.
NoStaticsRead == [op |-> "none", label |-> <<>>, kind |-> "none", value |-> <<>>,
                  records |-> <<>>, stop |-> 0]

\* No NewReaderForFile call made.
IdleOpener == [pc |-> "idle", staticsLength |-> 0, metadataLength |-> 0,
               valuesLength |-> 0, version |-> 0, result |-> "none", mapped |-> FALSE,
               read |-> NoStaticsRead, closes |-> 0, unmapCalls |-> 0,
               closeResults |-> <<>>, strayUnmap |-> FALSE]

\* The goroutines that call Writer.Close.
Closers == {1, 2}

\* A Writer that is not closed: closed = 0, its buffer mapped.  The history
\* of the Close calls: how many were made, how many lost the CAS and what
\* those returned.
OpenWriter == [closed |-> 0, unmaps |-> 0, calls |-> 0, lost |-> 0, lostResults |-> {},
               caller |-> [c \in Closers |-> [pc |-> "idle", result |-> "none"]]]

-----------------------------------------------------------------------------
(* Initial state: the file right after NewWriterForFile returned.          *)

NoCounters == [i \in {} |-> 0]

IdleThread == [pc |-> "idle", id |-> -1, label |-> <<>>, init |-> 0,
               off |-> 0, voff |-> 0, w |-> 0, n |-> 0]

NoSlot == [w |-> 0, len |-> 0, mem |-> <<>>, value |-> 0]

IdleReader == [pc |-> "idle", op |-> "none", id |-> -1, off |-> 0, voff |-> 0,
               w |-> 0, len |-> 0, label |-> <<>>, value |-> 0, at |-> NoSlot,
               alone |-> FALSE, pre |-> FALSE, closedBefore |-> FALSE, stop |-> 0,
               again |-> 0, startIds |-> {}]

\* No goroutine of a program is using the Counters.
NoUsers == [u \in {} |-> 0]

\* The program has made no cli.Options.
NoOptions == [registered |-> <<>>]

NoResult == [kind |-> "none", value |-> 0, label |-> <<>>, at |-> NoSlot]

\* Writer.idSequence of a new Writer.
InitialIdSequence == -1

InitCounters(c) ==
    /\ cfg = c
    /\ idStatus = [s \in 0 .. (c.maxCounters - 1) |-> 0]
    /\ labelLen = [s \in 0 .. (c.maxCounters - 1) |-> 0]
    /\ labelMem = [s \in 0 .. (c.maxCounters - 1) |-> <<>>]
    /\ values = [s \in 0 .. (c.maxCounters - 1) |-> 0]
    /\ idSequence = InitialIdSequence
    /\ counters = NoCounters
    /\ thr = [t \in c.writers |-> IdleThread]
    /\ rd = IdleReader
    /\ emitted = <<>>
    /\ rdResult = NoResult
    /\ issued = <<>>
    /\ hist = NoCounters
    /\ sets = 0
    /\ fileOnDisk = "sized"
    /\ header = [version |-> CountersVersion,
                 staticsLength |-> StaticsLength(NoStatics),
                 metadataLength |-> MetadataLength(c.maxCounters),
                 valuesLength |-> ValuesLength(c.maxCounters),
                 pid |-> ThePid, startTime |-> TheStartTime]
    /\ statics = [o \in 0 .. (StaticsLength(NoStatics) - 1) |-> 0]
    /\ ctor = [p \in {1} |-> [IdleCtor EXCEPT !.pc = "done"]]
    /\ opener = IdleOpener
    /\ wclose = OpenWriter
    /\ log = <<>>

\* No goroutine of a test program is tracked and no command line is parsed.
InitWith(c) ==
    /\ InitCounters(c)
    /\ usr = NoUsers
    /\ opts = NoOptions

\* Two goroutines share the writer.
Init ==
    \E m \in 1 .. MaxCounters :
        InitWith([maxCounters |-> m, writers |-> Writers, maxAdds |-> MaxAdds])

\* The run of the slot reuse scenario: three slots, four adds.
ReuseCounters == 3
ReuseAdds == 4

\* One goroutine adds A, B, C, closes and adds again.
InitReuse ==
    InitWith([maxCounters |-> ReuseCounters, writers |-> {1}, maxAdds |-> ReuseAdds])

\* The run of the long labels: one slot, taken twice.
LabelSlots == 1
LabelAdds == 2
\* The label lengths of that run, around the cap of 380 bytes.
LabelLengths == {2, 379, 380, 381, 383}
\* A label of n bytes for the counter that is issued id: no byte is zero and
\* the bytes differ from place to place and from id to id.
LongLabelFor(id, n) == [i \in 1 .. n |-> ((i + 3 * id) % 255) + 1]

InitLabel ==
    InitWith([maxCounters |-> LabelSlots, writers |-> {1}, maxAdds |-> LabelAdds])

\* Two goroutines share the writer; no reader runs.
InitW ==
    \E m \in 1 .. MaxCounters :
        InitWith([maxCounters |-> m, writers |-> Writers, maxAdds |-> MaxWriterAdds])

\* One goroutine uses the writer: its calls come one at a time.
InitSeq ==
    \E m \in 0 .. SeqMaxCounters :
        InitWith([maxCounters |-> m, writers |-> {1},
                  maxAdds |-> SeqMaxAdds])

\* The runs of the file's life: construction, opening, closing.
LifeCounters == 1
LifeAdds == 1
\* The statics maps given to NewWriterForFile have at most this many entries.
MaxStatics == 2
\* Labels and values of the statics, as bytes: "", "A", "AB", "B"; "", "xyz".
LifeLabels == {<<>>, <<65>>, <<65, 66>>, <<66>>}
LifeValues == {<<>>, <<120, 121, 122>>}
StaticsMaps ==
    UNION {[d -> LifeValues] : d \in {x \in SUBSET LifeLabels : Cardinality(x) <= MaxStatics}}

\* A version another writer left in a file found on disk: none yet, or a
\* version this reader does not know.
FoundVersions == {0, 2}

\* Before NewWriterForFile: the path is free, or holds a file somebody left;
\* two callers are about to construct a writer on it.
InitLife ==
    \E m \in {-1, LifeCounters}, st \in StaticsMaps, found \in {"absent", "sized"},
       v \in FoundVersions :
        /\ found = "absent" => v = 0
        /\ cfg = [maxCounters |-> m, writers |-> {1}, maxAdds |-> LifeAdds, statics |-> st]
        /\ idStatus = [s \in 0 .. (m - 1) |-> 0]
        /\ labelLen = [s \in 0 .. (m - 1) |-> 0]
        /\ labelMem = [s \in 0 .. (m - 1) |-> <<>>]
        /\ values = [s \in 0 .. (m - 1) |-> 0]
        /\ idSequence = InitialIdSequence
        /\ counters = NoCounters
        /\ thr = [t \in {1} |-> IdleThread]
        /\ rd = IdleReader
        /\ emitted = <<>>
        /\ rdResult = NoResult
        /\ issued = <<>>
        /\ hist = NoCounters
        /\ sets = 0
        /\ fileOnDisk = found
        /\ header = [version |-> v, staticsLength |-> 0, metadataLength |-> 0,
                     valuesLength |-> 0, pid |-> 0, startTime |-> 0]
        /\ statics = [o \in 0 .. (StaticsLength(st) - 1) |-> 0]
        /\ ctor = [p \in {1, 2} |-> IdleCtor]
        /\ opener = IdleOpener
        /\ wclose = OpenWriter
        /\ usr = NoUsers
        /\ log = <<>>
        /\ opts = NoOptions

-----------------------------------------------------------------------------
\* The counters whose handle exists and is not closed.
OpenIds == {i \in DOMAIN counters : counters[i].closed = 0}

AllIdle == \A t \in DOMAIN thr : thr[t].pc = "idle"

\* History: the lowest slot that is NotUsed or Freed now, -1 when there is none.
LowestFree ==
    LET free == {s \in Slots : idStatus[s] % 256 \in {0, 3}} IN
    IF free = {} THEN -1 ELSE CHOOSE s \in free : \A r \in free : s <= r

\* History: every slot of the metadata st is AllocationInProgress or Allocated.
AllOccupied(st) ==
    \A s \in DOMAIN st : extractStatus(st[s]) \in {counterStatusAllocationInProgress,
                                                  counterStatusAllocated}

\* History: the slots of the metadata st that are NotUsed or Freed.
FreeSlotsOf(st) ==
    {s \in DOMAIN st : extractStatus(st[s]) \in {counterStatusNotUsed, counterStatusFreed}}

\* History: the calls of AddCounter that are running note that they saw the
\* metadata st: whether every slot was occupied, and which slots were free
\* at every instant of the call so far.
NotedFull(h, st) ==
    [i \in DOMAIN h |-> IF h[i].result = "running"
                        THEN [h[i] EXCEPT !.full = @ \/ AllOccupied(st),
                                          !.stayedFree = @ \cap FreeSlotsOf(st)]
                        ELSE h[i]]

-----------------------------------------------------------------------------
(* Writer.AddCounterWithInitialValue and Encoder.AddCounter.               *)

\* atomic.AddInt64(&w.idSequence, 1)
NextIdSkipping(seq) == seq + 2
NextId(seq) == seq + 1

\* The statuses of a slot AddCounter tries to take.
AddTakesNotUsedOnly(status) == status = counterStatusNotUsed
AddTakesFreedOnly(status) == status = counterStatusFreed
AddTakesUnpublished(status) == status # counterStatusAllocated
AddTakes(status) == status \in {counterStatusNotUsed, counterStatusFreed}

\* The word AddCounter's CAS puts into the slot, and the word that publishes it.
InProgressWithoutId(id) == makeIDStatus(0, counterStatusAllocationInProgress)
InProgressIDStatus(id) == makeIDStatus(id, counterStatusAllocationInProgress)
AllocatedAsFreed(id) == makeIDStatus(id, counterStatusFreed)
AllocatedIDStatus(id) == makeIDStatus(id, counterStatusAllocated)

\* The label length AddCounter stores.
StoredLabelLengthUncapped(label) == Len(label)
StoredLabelLengthShort(label) == Min(Len(label), metadataLabelMaxLength) - 1
StoredLabelLength(label) == Min(Len(label), metadataLabelMaxLength)

AddCall(t, label, v) ==
    /\ thr[t].pc = "idle"
    /\ NextId(idSequence) < cfg.maxAdds
    /\ idSequence' = NextId(idSequence)
    /\ thr' = [thr EXCEPT ![t] = [IdleThread EXCEPT !.pc = "add_load",
                                    !.id = idSequence', !.label = label,
                                    !.init = v]]
    /\ issued' = Append(issued, idSequence')
    /\ hist' = (idSequence' :> [label |-> label, init |-> v, held |-> {},
                                 upd |-> FALSE, closeRet |-> FALSE, frees |-> 0,
                                 lostCAS |-> FALSE,
                                 slots |-> {},
                                 result |-> "running", open |-> Cardinality(OpenIds),
                                 lowest |-> LowestFree,
                                 full |-> AllOccupied(idStatus),
                                 stayedFree |-> FreeSlotsOf(idStatus)])
               @@ hist
    /\ UNCHANGED <<lifeVars, log, opts, cfg, sets, rd, idStatus, labelLen, labelMem, values, counters,
                   emitted, rdResult>>

\* The call made by a goroutine that the model does not track.
AddStart(t, label, v) ==
    /\ AddCall(t, label, v)
    /\ UNCHANGED usr

\* for metadataOffset < metadata.Capacity() { idStatus := GetInt64Volatile ...
AddLoad(t) ==
    /\ thr[t].pc = "add_load"
    /\ IF thr[t].off < MetadataLength(cfg.maxCounters)
       THEN LET w == idStatus[MetaSlot(thr[t].off + metadataCounterIDStatusOffset)] IN
            /\ thr' = [thr EXCEPT ![t] =
                        IF AddTakes(extractStatus(w))
                        THEN [@ EXCEPT !.pc = "add_cas", !.w = w]
                        ELSE [@ EXCEPT !.off = @ + metadataRecordLength,
                                       !.voff = @ + valuesCounterLength]]
            /\ hist' = hist
       ELSE \* "there is no free space to add new counter"
            /\ thr' = [thr EXCEPT ![t] = IdleThread]
            /\ hist' = [hist EXCEPT ![thr[t].id].result = "OutOfSlots"]
    /\ UNCHANGED <<lifeVars, userVars, cfg, sets, rd, idStatus, labelLen, labelMem, values, idSequence,
                   counters, emitted, rdResult, issued>>

\* continue, after a CAS that failed: the loop tests the same metadataOffset
\* and valueOffset again.
RetriedAtNextValue(th) == [th EXCEPT !.pc = "add_load", !.voff = @ + valuesCounterLength]
RetriedAtNextSlot(th) == [th EXCEPT !.pc = "add_load", !.off = @ + metadataRecordLength,
                                    !.voff = @ + valuesCounterLength]
Retried(th) == [th EXCEPT !.pc = "add_load"]

\* metadata.CompareAndSwapInt64(idStatusOffset, idStatus, inProgressIDStatus)
AddCAS(t) ==
    /\ thr[t].pc = "add_cas"
    /\ LET s == MetaSlot(thr[t].off + metadataCounterIDStatusOffset) IN
       IF idStatus[s] = thr[t].w
       THEN /\ idStatus' = [idStatus EXCEPT ![s] = InProgressIDStatus(thr[t].id)]
            /\ thr' = [thr EXCEPT ![t].pc = "add_len"]
            /\ hist' = NotedFull([hist EXCEPT ![thr[t].id].slots = @ \cup {s}], idStatus')
       ELSE \* continue: the same slot is read again
            /\ idStatus' = idStatus
            /\ thr' = [thr EXCEPT ![t] = Retried(@)]
            /\ hist' = hist
    /\ UNCHANGED <<lifeVars, userVars, cfg, sets, rd, labelLen, labelMem, values, idSequence, counters,
                   emitted, rdResult, issued>>

\* metadata.PutInt32(metadataOffset+metadataLabelLengthOffset, int32(labelLength))
AddPutLen(t) ==
    /\ thr[t].pc = "add_len"
    /\ labelLen' = [labelLen EXCEPT ![MetaSlot(thr[t].off + metadataLabelLengthOffset)] =
                        StoredLabelLength(thr[t].label)]
    /\ thr' = [thr EXCEPT ![t].pc = IF StoredLabelLength(thr[t].label) > 0
                                     THEN "add_bytes" ELSE "add_val"]
    /\ UNCHANGED <<lifeVars, userVars, cfg, sets, rd, idStatus, labelMem, values, idSequence, counters,
                   emitted, rdResult, issued, hist>>

\* metadata.PutSomeBytes(metadataOffset+metadataLabelOffset, labelBytes, 0, labelLength)
AddPutBytes(t) ==
    /\ thr[t].pc = "add_bytes"
    /\ labelMem' = [labelMem EXCEPT ![MetaSlot(thr[t].off + metadataLabelOffset)] =
                        PutSomeBytes(@, thr[t].label, 0, thr[t].n + 1)]
    /\ thr' = [thr EXCEPT ![t].n = @ + 1,
                          ![t].pc = IF thr[t].n + 1 < StoredLabelLength(thr[t].label)
                                    THEN "add_bytes" ELSE "add_val"]
    /\ UNCHANGED <<lifeVars, userVars, cfg, sets, rd, idStatus, labelLen, values, idSequence, counters,
                   emitted, rdResult, issued, hist>>

\* values.PutInt64(valueOffset, initialValue)
AddPutValue(t) ==
    /\ thr[t].pc = "add_val"
    /\ values' = [values EXCEPT ![ValueSlot(thr[t].voff)] = thr[t].init]
    /\ hist' = [hist EXCEPT ![thr[t].id].held = @ \cup {thr[t].init}]
    /\ thr' = [thr EXCEPT ![t].pc = "add_pub"]
    /\ UNCHANGED <<lifeVars, userVars, cfg, sets, rd, idStatus, labelLen, labelMem, idSequence, counters,
                   emitted, rdResult, issued>>

\* metadata.PutInt64Volatile(idStatusOffset, allocatedIDStatus); return valueOffset;
\* the Writer wraps it in a Counter.
AddPublish(t) ==
    /\ thr[t].pc = "add_pub"
    /\ idStatus' = [idStatus EXCEPT ![MetaSlot(thr[t].off + metadataCounterIDStatusOffset)] =
                        AllocatedIDStatus(thr[t].id)]
    /\ counters' = (thr[t].id :> [id |-> thr[t].id, label |-> thr[t].label,
                                  valueOffset |-> thr[t].voff, closed |-> 0])
                   @@ counters
    /\ hist' = [hist EXCEPT ![thr[t].id].result = "ok"]
    /\ thr' = [thr EXCEPT ![t] = IdleThread]
    /\ UNCHANGED <<lifeVars, userVars, cfg, sets, rd, labelLen, labelMem, values, idSequence, emitted,
                   rdResult, issued>>

-----------------------------------------------------------------------------
(* Counter.Close, Encoder.FreeCounter and Counter.Set.                     *)

\* The word FreeCounter's CAS puts into the slot.
FreedAsNotUsed(id) == makeIDStatus(id, counterStatusNotUsed)
FreedWithoutId(id) == makeIDStatus(0, counterStatusFreed)
FreedLeftAllocated(id) == makeIDStatus(id, counterStatusAllocated)
FreedIDStatus(id) == makeIDStatus(id, counterStatusFreed)

\* atomic.CompareAndSwapInt32(&c.closed, 0, 1) succeeds on the value 0 only.
HandleCASAlwaysWins(closed) == TRUE
HandleCASWins(closed) == closed = 0

\* if !atomic.CompareAndSwapInt32(&c.closed, 0, 1) { return };
\* c.owner.encoder.FreeCounter(c.id) is entered
CloseStart(t, id) ==
    /\ thr[t].pc = "idle"
    /\ id \in DOMAIN counters
    /\ IF HandleCASWins(counters[id].closed)
       THEN /\ counters' = [counters EXCEPT ![id].closed = 1]
            /\ thr' = [thr EXCEPT ![t] = [IdleThread EXCEPT !.pc = "free_load", !.id = id]]
            /\ hist' = [hist EXCEPT ![id].frees = @ + 1]
       ELSE UNCHANGED <<counters, thr, hist>>
    /\ UNCHANGED <<lifeVars, userVars, cfg, sets, rd, idStatus, labelLen, labelMem, values, idSequence,
                   emitted, rdResult, issued>>

\* for metadataOffset < metadata.Capacity() { idStatus := GetInt64Volatile ...
FreeLoad(t) ==
    /\ thr[t].pc = "free_load"
    /\ IF thr[t].off < MetadataLength(cfg.maxCounters)
       THEN LET w == idStatus[MetaSlot(thr[t].off + metadataCounterIDStatusOffset)] IN
            IF extractID(w) = thr[t].id
            THEN IF extractStatus(w) = counterStatusAllocated
                 THEN /\ thr' = [thr EXCEPT ![t].pc = "free_cas", ![t].w = w]
                      /\ hist' = hist
                 ELSE /\ thr' = [thr EXCEPT ![t] = IdleThread]
                      /\ hist' = [hist EXCEPT ![thr[t].id].closeRet = TRUE]
            ELSE /\ thr' = [thr EXCEPT ![t].off = @ + metadataRecordLength]
                 /\ hist' = hist
       ELSE /\ thr' = [thr EXCEPT ![t] = IdleThread]
            /\ hist' = [hist EXCEPT ![thr[t].id].closeRet = TRUE]
    /\ UNCHANGED <<lifeVars, userVars, cfg, sets, rd, idStatus, labelLen, labelMem, values, idSequence,
                   counters, emitted, rdResult, issued>>

\* Encoder.FreeCounter(id), called on the encoder directly: no Counter handle
\* stands between the caller and the slots.
FreeStart(t, id) ==
    /\ thr[t].pc = "idle"
    /\ id \in DOMAIN hist
    /\ hist[id].frees < cfg.maxFrees
    /\ thr' = [thr EXCEPT ![t] = [IdleThread EXCEPT !.pc = "free_load", !.id = id]]
    /\ hist' = [hist EXCEPT ![id].frees = @ + 1]
    /\ UNCHANGED <<lifeVars, userVars, cfg, sets, rd, idStatus, labelLen, labelMem, values,
                   idSequence, counters, emitted, rdResult, issued>>

\* CompareAndSwapInt64 stores when the word still is the one that was read.
StoresAnyway(now, seen) == TRUE
CompareAndSwapStores(now, seen) == now = seen

\* metadata.CompareAndSwapInt64(idStatusOffset, idStatus, newIDStatus); return true
FreeCAS(t) ==
    /\ thr[t].pc = "free_cas"
    /\ LET s == MetaSlot(thr[t].off + metadataCounterIDStatusOffset) IN
       IF CompareAndSwapStores(idStatus[s], thr[t].w)
       THEN /\ idStatus' = [idStatus EXCEPT ![s] = FreedIDStatus(thr[t].id)]
            /\ hist' = [hist EXCEPT ![thr[t].id].closeRet = TRUE]
       ELSE /\ idStatus' = idStatus
            /\ hist' = [hist EXCEPT ![thr[t].id].closeRet = TRUE,
                                    ![thr[t].id].lostCAS = TRUE]
    /\ thr' = [thr EXCEPT ![t] = IdleThread]
    /\ UNCHANGED <<lifeVars, userVars, cfg, sets, rd, labelLen, labelMem, values, idSequence, counters,
                   emitted, rdResult, issued>>

\* c.owner.values.PutInt64Volatile(c.valueOffset, v), on a handle that is not closed
CounterSet(t, id, v) ==
    /\ thr[t].pc = "idle"
    /\ id \in OpenIds
    /\ sets < MaxSets
    /\ sets' = sets + 1
    /\ values' = [values EXCEPT ![ValueSlot(counters[id].valueOffset)] = v]
    /\ hist' = [hist EXCEPT ![id].held = @ \cup {v}, ![id].upd = TRUE]
    /\ UNCHANGED <<lifeVars, userVars, cfg, rd, idStatus, labelLen, labelMem, idSequence, counters,
                   thr, emitted, rdResult, issued>>

\* The deltas of Counter.Increment (1) and of a Counter.GetAndAdd(delta) call.
AddDeltas == {1, 3}

\* c.owner.values.AddInt64(c.valueOffset, delta): Counter.Increment and
\* Counter.GetAndAdd, on a handle that is not closed
CounterAdd(t, id, delta) ==
    /\ thr[t].pc = "idle"
    /\ id \in OpenIds
    /\ sets < MaxSets
    /\ sets' = sets + 1
    /\ LET v == values[ValueSlot(counters[id].valueOffset)] + delta IN
       /\ values' = [values EXCEPT ![ValueSlot(counters[id].valueOffset)] = v]
       /\ hist' = [hist EXCEPT ![id].held = @ \cup {v}, ![id].upd = TRUE]
    /\ UNCHANGED <<lifeVars, userVars, cfg, rd, idStatus, labelLen, labelMem, idSequence, counters,
                   thr, emitted, rdResult, issued>>

-----------------------------------------------------------------------------
(* The reader: Decoder.ForEachCounter, GetCounterValue, GetCounterLabel.   *)

\* The ids a caller may ask the reader for: issued ones and one never issued.
LookupIds == 0 .. cfg.maxAdds

\* The content of a metadata slot and its paired value at this instant.
SlotNow(off, voff) ==
    [w |-> idStatus[MetaSlot(off)], len |-> labelLen[MetaSlot(off)],
     mem |-> labelMem[MetaSlot(off)], value |-> values[ValueSlot(voff)]]

\* The status at which the readers stop scanning.
StopsScanAtFreed(status) == status \in {counterStatusNotUsed, counterStatusFreed}
StopsScan(status) == status = counterStatusNotUsed

\* if metadata.GetInt64Volatile(idStatusOffset) == idStatus
RevalidatedUnchecked(now, seen) == TRUE
Revalidated(now, seen) == now = seen

\* The error of a lookup that finds its id in a slot that is not Allocated,
\* and of a lookup that does not find its id.
NotAllocatedAsNotFound == "NotFound"
NotAllocatedError == "NotAllocated"
NotFoundError == "NotFound"

RdStart(op, id) ==
    /\ rd.pc = "idle"
    /\ \/ op = "forEach" /\ id = -1
       \/ op \in {"getValue", "getLabel"} /\ id \in LookupIds
    /\ rd' = [IdleReader EXCEPT
                !.pc = CASE op = "forEach" -> "fe_load"
                         [] op = "getValue" -> "gv_load"
                         [] OTHER -> "gl_load",
                !.op = op, !.id = id, !.alone = AllIdle,
                !.pre = id \in OpenIds /\ ~hist[id].upd,
                !.closedBefore = id \in DOMAIN hist /\ hist[id].closeRet]
    /\ emitted' = <<>>
    /\ rdResult' = NoResult
    /\ UNCHANGED <<lifeVars, userVars, cfg, sets, idStatus, labelLen, labelMem, values, idSequence,
                   counters, thr, issued, hist>>

\* ForEachCounter with a consumer that returns false on its stop-th call.
ForEachCounterStop(stop) ==
    /\ rd.pc = "idle"
    /\ rd' = [IdleReader EXCEPT !.pc = "fe_load", !.op = "forEach", !.alone = AllIdle,
                                !.stop = stop]
    /\ emitted' = <<>>
    /\ rdResult' = NoResult
    /\ UNCHANGED <<lifeVars, userVars, cfg, sets, idStatus, labelLen, labelMem, values, idSequence,
                   counters, thr, issued, hist>>

\* The caller is done with what the call returned.
RdDrop ==
    /\ rd.pc = "done"
    /\ rd' = IdleReader
    /\ emitted' = <<>>
    /\ rdResult' = NoResult
    /\ UNCHANGED <<lifeVars, userVars, cfg, sets, idStatus, labelLen, labelMem, values, idSequence,
                   counters, thr, issued, hist>>

Returned(kind, value, label, at) ==
    /\ rd' = [rd EXCEPT !.pc = "done"]
    /\ rdResult' = [kind |-> kind, value |-> value, label |-> label, at |-> at]

Advanced == [rd EXCEPT !.off = @ + metadataRecordLength,
                       !.voff = @ + valuesCounterLength]

\* ForEachCounter: for metadataOffset < metadata.Capacity() { idStatus := ...; switch
FeLoad ==
    /\ rd.pc = "fe_load"
    /\ IF rd.off < MetadataLength(cfg.maxCounters)
       THEN LET w == idStatus[MetaSlot(rd.off + metadataCounterIDStatusOffset)] IN
            rd' = IF StopsScan(extractStatus(w))
                  THEN [rd EXCEPT !.pc = "done"]
                  ELSE IF extractStatus(w) = counterStatusAllocated
                       THEN [rd EXCEPT !.pc = "fe_len", !.w = w]
                       ELSE Advanced
       ELSE rd' = [rd EXCEPT !.pc = "done"]
    /\ UNCHANGED <<lifeVars, userVars, cfg, sets, idStatus, labelLen, labelMem, values, idSequence,
                   counters, thr, emitted, rdResult, issued, hist>>

\* labelLength := int(metadata.GetInt32(metadataOffset + metadataLabelLengthOffset))
FeLen ==
    /\ rd.pc = "fe_len"
    /\ LET len == labelLen[MetaSlot(rd.off + metadataLabelLengthOffset)] IN
       rd' = [rd EXCEPT !.pc = IF len > 0 THEN "fe_bytes" ELSE "fe_val", !.len = len]
    /\ UNCHANGED <<lifeVars, userVars, cfg, sets, idStatus, labelLen, labelMem, values, idSequence,
                   counters, thr, emitted, rdResult, issued, hist>>

\* label := metadata.GetString(metadataOffset+metadataLabelOffset, labelLength)
FeBytes ==
    /\ rd.pc = "fe_bytes"
    /\ rd' = [rd EXCEPT !.pc = IF Len(rd.label) + 1 < rd.len THEN "fe_bytes" ELSE "fe_val",
                        !.label = GetBytes(labelMem[MetaSlot(rd.off + metadataLabelOffset)],
                                           rd.label)]
    /\ UNCHANGED <<lifeVars, userVars, cfg, sets, idStatus, labelLen, labelMem, values, idSequence,
                   counters, thr, emitted, rdResult, issued, hist>>

\* value := values.GetInt64(valueOffset)
FeVal ==
    /\ rd.pc = "fe_val"
    /\ rd' = [rd EXCEPT !.pc = "fe_check", !.value = values[ValueSlot(rd.voff)],
                        !.at = SlotNow(rd.off, rd.voff)]
    /\ UNCHANGED <<lifeVars, userVars, cfg, sets, idStatus, labelLen, labelMem, values, idSequence,
                   counters, thr, emitted, rdResult, issued, hist>>

\* The consumer the caller passes: it returns false on its stop-th call of
\* one iteration, and true every time when stop is 0.  delivered holds what
\* it was given so far, the current record included.
consumer(delivered, stop) == Len(delivered) # stop

\* if !consumer(...) { return }
ReturnsNever(more) == FALSE
ReturnsOn(more) == ~more

\* if metadata.GetInt64Volatile(idStatusOffset) == idStatus {
\*     if !consumer(id, value, label) { return } }
FeCheck ==
    /\ rd.pc = "fe_check"
    /\ LET valid == Revalidated(idStatus[MetaSlot(rd.off + metadataCounterIDStatusOffset)],
                                rd.w)
           out == IF valid
                  THEN Append(emitted, [id |-> extractID(rd.w), value |-> rd.value,
                                        label |-> rd.label, at |-> rd.at])
                  ELSE emitted
       IN /\ emitted' = out
          /\ rd' = IF valid /\ ReturnsOn(consumer(out, rd.stop))
                   THEN [rd EXCEPT !.pc = "done"]
                   ELSE [Advanced EXCEPT !.pc = "fe_load", !.w = 0, !.len = 0,
                                         !.label = <<>>, !.value = 0, !.at = NoSlot]
    /\ UNCHANGED <<lifeVars, userVars, cfg, sets, idStatus, labelLen, labelMem, values, idSequence,
                   counters, thr, rdResult, issued, hist>>

\* GetCounterValue: for metadataOffset < metadata.Capacity() { idStatus := ...
GvLoad ==
    /\ rd.pc = "gv_load"
    /\ IF rd.off < MetadataLength(cfg.maxCounters)
       THEN LET w == idStatus[MetaSlot(rd.off + metadataCounterIDStatusOffset)] IN
            IF StopsScan(extractStatus(w))
            THEN Returned(NotFoundError, 0, <<>>, NoSlot)
            ELSE IF rd.id = extractID(w)
                 THEN IF extractStatus(w) = counterStatusAllocated
                      THEN /\ rd' = [rd EXCEPT !.pc = "gv_val", !.w = w]
                           /\ rdResult' = rdResult
                      ELSE Returned(NotAllocatedError, 0, <<>>, NoSlot)
                 ELSE /\ rd' = Advanced
                      /\ rdResult' = rdResult
       ELSE Returned(NotFoundError, 0, <<>>, NoSlot)
    /\ UNCHANGED <<lifeVars, userVars, cfg, sets, idStatus, labelLen, labelMem, values, idSequence,
                   counters, thr, emitted, issued, hist>>

\* value = values.GetInt64(valueOffset)
GvVal ==
    /\ rd.pc = "gv_val"
    /\ rd' = [rd EXCEPT !.pc = "gv_check", !.value = values[ValueSlot(rd.voff)],
                        !.at = SlotNow(rd.off, rd.voff)]
    /\ UNCHANGED <<lifeVars, userVars, cfg, sets, idStatus, labelLen, labelMem, values, idSequence,
                   counters, thr, emitted, rdResult, issued, hist>>

\* if metadata.GetInt64Volatile(idStatusOffset) == idStatus { return value, nil }; continue
GvCheck ==
    /\ rd.pc = "gv_check"
    /\ IF Revalidated(idStatus[MetaSlot(rd.off + metadataCounterIDStatusOffset)], rd.w)
       THEN Returned("ok", rd.value, <<>>, rd.at)
       ELSE /\ rd' = [rd EXCEPT !.pc = "gv_load", !.w = 0, !.value = 0, !.at = NoSlot,
                                 !.again = @ + 1]
            /\ rdResult' = rdResult
    /\ UNCHANGED <<lifeVars, userVars, cfg, sets, idStatus, labelLen, labelMem, values, idSequence,
                   counters, thr, emitted, issued, hist>>

\* GetCounterLabel: for metadataOffset < metadata.Capacity() { idStatus := ...
GlLoad ==
    /\ rd.pc = "gl_load"
    /\ IF rd.off < MetadataLength(cfg.maxCounters)
       THEN LET w == idStatus[MetaSlot(rd.off + metadataCounterIDStatusOffset)] IN
            IF StopsScan(extractStatus(w))
            THEN Returned(NotFoundError, 0, <<>>, NoSlot)
            ELSE IF rd.id = extractID(w)
                 THEN IF extractStatus(w) = counterStatusAllocated
                      THEN /\ rd' = [rd EXCEPT !.pc = "gl_len", !.w = w]
                           /\ rdResult' = rdResult
                      ELSE Returned(NotAllocatedError, 0, <<>>, NoSlot)
                 ELSE /\ rd' = Advanced
                      /\ rdResult' = rdResult
       ELSE Returned(NotFoundError, 0, <<>>, NoSlot)
    /\ UNCHANGED <<lifeVars, userVars, cfg, sets, idStatus, labelLen, labelMem, values, idSequence,
                   counters, thr, emitted, issued, hist>>

\* labelLength := int(metadata.GetInt32(metadataOffset + metadataLabelLengthOffset))
GlLen ==
    /\ rd.pc = "gl_len"
    /\ LET len == labelLen[MetaSlot(rd.off + metadataLabelLengthOffset)] IN
       rd' = [rd EXCEPT !.pc = IF len > 0 THEN "gl_bytes" ELSE "gl_check", !.len = len,
                        !.at = SlotNow(rd.off, rd.voff)]
    /\ UNCHANGED <<lifeVars, userVars, cfg, sets, idStatus, labelLen, labelMem, values, idSequence,
                   counters, thr, emitted, rdResult, issued, hist>>

\* labelBytes := metadata.GetBytes(metadataOffset+metadataLabelOffset, labelLength)
GlBytes ==
    /\ rd.pc = "gl_bytes"
    /\ rd' = [rd EXCEPT !.pc = IF Len(rd.label) + 1 < rd.len THEN "gl_bytes" ELSE "gl_check",
                        !.label = GetBytes(labelMem[MetaSlot(rd.off + metadataLabelOffset)],
                                           rd.label),
                        !.at = SlotNow(rd.off, rd.voff)]
    /\ UNCHANGED <<lifeVars, userVars, cfg, sets, idStatus, labelLen, labelMem, values, idSequence,
                   counters, thr, emitted, rdResult, issued, hist>>

\* if metadata.GetInt64Volatile(idStatusOffset) == idStatus { return string(labelBytes), nil }
GlCheck ==
    /\ rd.pc = "gl_check"
    /\ IF Revalidated(idStatus[MetaSlot(rd.off + metadataCounterIDStatusOffset)], rd.w)
       THEN Returned("ok", 0, rd.label, rd.at)
       ELSE /\ rd' = [rd EXCEPT !.pc = "gl_load", !.w = 0, !.len = 0, !.label = <<>>,
                                !.at = NoSlot, !.again = @ + 1]
            /\ rdResult' = rdResult
    /\ UNCHANGED <<lifeVars, userVars, cfg, sets, idStatus, labelLen, labelMem, values, idSequence,
                   counters, thr, emitted, issued, hist>>

-----------------------------------------------------------------------------
(* NewWriterForFile: mmap.MapNewFile, layout.NewEncoder, Encoder.SetPid,   *)
(* SetStartTime, SetStatics and SetVersion.                                *)

MaxPossibleNumberOfCounters == 10000

\* Buffer.PutInt32 / PutInt32Volatile on the statics section: four bytes,
\* little-endian, as the int32 lies in the mapped memory.
PutInt32(mem, off, v) ==
    [o \in DOMAIN mem |->
        IF off <= o /\ o < off + sizeOfInt32
        THEN (v \div (256 ^ (o - off))) % 256
        ELSE mem[o]]

\* Buffer.PutBytes on the statics section: PutSomeBytes(offset, bs, 0, len(bs)).
PutBytes(mem, off, bs) ==
    [o \in DOMAIN mem |->
        IF off <= o /\ o < off + Len(bs) THEN bs[o - off + 1] ELSE mem[o]]

\* os.OpenFile(filename, O_RDWR|O_CREATE|O_EXCL): fails when the path exists.
OpenShared(onDisk) == FALSE
OpenFails(onDisk) == onDisk # "absent"

\* The calls NewWriterForFile makes on the encoder, in its order.
VersionFirst == <<"version", "pid", "time", "statics">>
VersionBeforeStatics == <<"pid", "time", "version", "statics">>
CtorOrder == <<"pid", "time", "statics", "version">>

\* The position after the encoder call named call returned.
AfterCall(call) ==
    LET k == CHOOSE i \in 1 .. Len(CtorOrder) : CtorOrder[i] = call IN
    IF k < Len(CtorOrder) THEN CtorOrder[k + 1] ELSE "done"

\* if maxNumbersOfCounters < 0 || > MaxPossibleNumberOfCounters { return error };
\* MapNewFile: os.OpenFile with O_EXCL
CtorOpen(p) ==
    /\ ctor[p].pc = "start"
    /\ IF cfg.maxCounters < 0 \/ cfg.maxCounters > MaxPossibleNumberOfCounters
       THEN /\ ctor' = [ctor EXCEPT ![p].pc = "failed", ![p].err = "IncorrectMax"]
            /\ fileOnDisk' = fileOnDisk
       ELSE IF OpenFails(fileOnDisk)
            THEN /\ ctor' = [ctor EXCEPT ![p].pc = "failed", ![p].err = "FileExists",
                                         ![p].sawFile = TRUE]
                 /\ fileOnDisk' = fileOnDisk
            ELSE /\ ctor' = [ctor EXCEPT ![p].pc = "truncate",
                                         ![p].sawFile = fileOnDisk # "absent"]
                 /\ fileOnDisk' = IF fileOnDisk = "absent" THEN "empty" ELSE fileOnDisk
    /\ UNCHANGED <<cfg, idStatus, labelLen, labelMem, values, idSequence, counters,
                   thr, rd, emitted, rdResult, issued, hist, sets, usr, log, opts,
                   header, statics, opener, wclose>>

\* MapNewFile: os.Truncate, mmap, and the pre-touch of the pages
\* (buf.PutInt64(0, 0) lies over the version and the statics length).
CtorMap(p) ==
    /\ ctor[p].pc = "truncate"
    /\ fileOnDisk' = "sized"
    /\ header' = [header EXCEPT !.version = 0, !.staticsLength = 0]
    /\ ctor' = [ctor EXCEPT ![p].pc = "len_s"]
    /\ UNCHANGED <<cfg, idStatus, labelLen, labelMem, values, idSequence, counters,
                   thr, rd, emitted, rdResult, issued, hist, sets, usr, log, opts,
                   statics, opener, wclose>>

\* NewEncoderWithBuffers: header.PutInt32(headerStaticsLengthOffset, ...)
CtorLenS(p) ==
    /\ ctor[p].pc = "len_s"
    /\ header' = [header EXCEPT !.staticsLength = StaticsLength(cfg.statics)]
    /\ ctor' = [ctor EXCEPT ![p].pc = "len_m"]
    /\ UNCHANGED <<cfg, idStatus, labelLen, labelMem, values, idSequence, counters,
                   thr, rd, emitted, rdResult, issued, hist, sets, usr, log, opts,
                   fileOnDisk, statics, opener, wclose>>

\* header.PutInt32(headerMetadataLengthOffset, ...)
CtorLenMOfValues(p) ==
    /\ ctor[p].pc = "len_m"
    /\ header' = [header EXCEPT !.metadataLength = ValuesLength(cfg.maxCounters)]
    /\ ctor' = [ctor EXCEPT ![p].pc = "len_v"]
    /\ UNCHANGED <<cfg, idStatus, labelLen, labelMem, values, idSequence, counters,
                   thr, rd, emitted, rdResult, issued, hist, sets, usr, log, opts,
                   fileOnDisk, statics, opener, wclose>>
CtorLenM(p) ==
    /\ ctor[p].pc = "len_m"
    /\ header' = [header EXCEPT !.metadataLength = MetadataLength(cfg.maxCounters)]
    /\ ctor' = [ctor EXCEPT ![p].pc = "len_v"]
    /\ UNCHANGED <<cfg, idStatus, labelLen, labelMem, values, idSequence, counters,
                   thr, rd, emitted, rdResult, issued, hist, sets, usr, log, opts,
                   fileOnDisk, statics, opener, wclose>>

\* header.PutInt32(headerValuesLengthOffset, ...)
CtorLenV(p) ==
    /\ ctor[p].pc = "len_v"
    /\ header' = [header EXCEPT !.valuesLength = ValuesLength(cfg.maxCounters)]
    /\ ctor' = [ctor EXCEPT ![p].pc = CtorOrder[1]]
    /\ UNCHANGED <<cfg, idStatus, labelLen, labelMem, values, idSequence, counters,
                   thr, rd, emitted, rdResult, issued, hist, sets, usr, log, opts,
                   fileOnDisk, statics, opener, wclose>>

\* encoder.SetPid(int64(os.Getpid()))
CtorPid(p) ==
    /\ ctor[p].pc = "pid"
    /\ header' = [header EXCEPT !.pid = ThePid]
    /\ ctor' = [ctor EXCEPT ![p].pc = AfterCall("pid")]
    /\ UNCHANGED <<cfg, idStatus, labelLen, labelMem, values, idSequence, counters,
                   thr, rd, emitted, rdResult, issued, hist, sets, usr, log, opts,
                   fileOnDisk, statics, opener, wclose>>

\* encoder.SetStartTime(time.Now().UnixNano() / int64(time.Millisecond))
CtorStartTime(p) ==
    /\ ctor[p].pc = "time"
    /\ header' = [header EXCEPT !.startTime = TheStartTime]
    /\ ctor' = [ctor EXCEPT ![p].pc = AfterCall("time")]
    /\ UNCHANGED <<cfg, idStatus, labelLen, labelMem, values, idSequence, counters,
                   thr, rd, emitted, rdResult, issued, hist, sets, usr, log, opts,
                   fileOnDisk, statics, opener, wclose>>

\* SetStatics up to statx.PutInt32Volatile(uintptr(offset), int32(len(labels)))
CtorStaticsCount(p) ==
    /\ ctor[p].pc = "statics"
    /\ IF DOMAIN cfg.statics = {}
       THEN /\ statics' = PutInt32(statics, 0, 0)
            /\ ctor' = [ctor EXCEPT ![p].pc = AfterCall("statics")]
       ELSE IF staticsRecordsOffset > StaticsLength(cfg.statics)
            THEN /\ statics' = statics
                 /\ ctor' = [ctor EXCEPT ![p].pc = AfterCall("statics"),
                                         ![p].err = "StaticsTooSmall"]
            ELSE /\ statics' = PutInt32(statics, 0, Cardinality(DOMAIN cfg.statics))
                 /\ ctor' = [ctor EXCEPT ![p].pc = "st_label",
                                         ![p].labels = SortedLabels(DOMAIN cfg.statics),
                                         ![p].offset = staticsRecordsOffset]
    /\ UNCHANGED <<cfg, idStatus, labelLen, labelMem, values, idSequence, counters,
                   thr, rd, emitted, rdResult, issued, hist, sets, usr, log, opts,
                   fileOnDisk, header, opener, wclose>>

\* if offset+recordLength > statx.Capacity() { return error };
\* statx.PutBytes(uintptr(offset+staticsLabelOffset), labelBytes)
CtorStaticsLabel(p) ==
    /\ ctor[p].pc = "st_label"
    /\ LET label == Head(ctor[p].labels)
           value == cfg.statics[label]
       IN IF ctor[p].offset + staticsRecordLength(Len(label), Len(value))
                > StaticsLength(cfg.statics)
          THEN /\ statics' = statics
               /\ ctor' = [ctor EXCEPT ![p].pc = AfterCall("statics"),
                                       ![p].err = "StaticsTooSmall"]
          ELSE /\ statics' = PutBytes(statics, ctor[p].offset + staticsLabelOffset, label)
               /\ ctor' = [ctor EXCEPT ![p].pc = "st_value"]
    /\ UNCHANGED <<cfg, idStatus, labelLen, labelMem, values, idSequence, counters,
                   thr, rd, emitted, rdResult, issued, hist, sets, usr, log, opts,
                   fileOnDisk, header, opener, wclose>>

\* statx.PutBytes(uintptr(offset+staticsLabelOffset+len(labelBytes)), valueBytes)
CtorStaticsValue(p) ==
    /\ ctor[p].pc = "st_value"
    /\ LET label == Head(ctor[p].labels) IN
       statics' = PutBytes(statics, ctor[p].offset + staticsLabelOffset + Len(label),
                           cfg.statics[label])
    /\ ctor' = [ctor EXCEPT ![p].pc = "st_llen"]
    /\ UNCHANGED <<cfg, idStatus, labelLen, labelMem, values, idSequence, counters,
                   thr, rd, emitted, rdResult, issued, hist, sets, usr, log, opts,
                   fileOnDisk, header, opener, wclose>>

\* statx.PutInt32(uintptr(offset+staticsLabelLengthOffset), int32(len(labelBytes)))
CtorStaticsLabelLen(p) ==
    /\ ctor[p].pc = "st_llen"
    /\ statics' = PutInt32(statics, ctor[p].offset + staticsLabelLengthOffset,
                           Len(Head(ctor[p].labels)))
    /\ ctor' = [ctor EXCEPT ![p].pc = "st_vlen"]
    /\ UNCHANGED <<cfg, idStatus, labelLen, labelMem, values, idSequence, counters,
                   thr, rd, emitted, rdResult, issued, hist, sets, usr, log, opts,
                   fileOnDisk, header, opener, wclose>>

\* statx.PutInt32Volatile(uintptr(offset+staticsValueLengthOffset), ...);
\* offset += recordLength
CtorStaticsValueLen(p) ==
    /\ ctor[p].pc = "st_vlen"
    /\ LET label == Head(ctor[p].labels)
           value == cfg.statics[label]
       IN /\ statics' = PutInt32(statics, ctor[p].offset + staticsValueLengthOffset,
                                 Len(value))
          /\ ctor' = [ctor EXCEPT
                        ![p].offset = @ + staticsRecordLength(Len(label), Len(value)),
                        ![p].labels = Tail(@),
                        ![p].pc = IF Len(ctor[p].labels) > 1 THEN "st_label"
                                  ELSE AfterCall("statics")]
    /\ UNCHANGED <<cfg, idStatus, labelLen, labelMem, values, idSequence, counters,
                   thr, rd, emitted, rdResult, issued, hist, sets, usr, log, opts,
                   fileOnDisk, header, opener, wclose>>

\* encoder.SetVersion(layout.CountersVersion); return &Writer{...}
CtorVersion(p) ==
    /\ ctor[p].pc = "version"
    /\ header' = [header EXCEPT !.version = CountersVersion]
    /\ ctor' = [ctor EXCEPT ![p].pc = AfterCall("version")]
    /\ UNCHANGED <<cfg, idStatus, labelLen, labelMem, values, idSequence, counters,
                   thr, rd, emitted, rdResult, issued, hist, sets, usr, log, opts,
                   fileOnDisk, statics, opener, wclose>>

CtorStep ==
    \/ \E p \in DOMAIN ctor : CtorOpen(p)
    \/ \E p \in DOMAIN ctor : CtorMap(p)
    \/ \E p \in DOMAIN ctor : CtorLenS(p)
    \/ \E p \in DOMAIN ctor : CtorLenM(p)
    \/ \E p \in DOMAIN ctor : CtorLenV(p)
    \/ \E p \in DOMAIN ctor : CtorPid(p)
    \/ \E p \in DOMAIN ctor : CtorStartTime(p)
    \/ \E p \in DOMAIN ctor : CtorStaticsCount(p)
    \/ \E p \in DOMAIN ctor : CtorStaticsLabel(p)
    \/ \E p \in DOMAIN ctor : CtorStaticsValue(p)
    \/ \E p \in DOMAIN ctor : CtorStaticsLabelLen(p)
    \/ \E p \in DOMAIN ctor : CtorStaticsValueLen(p)
    \/ \E p \in DOMAIN ctor : CtorVersion(p)

-----------------------------------------------------------------------------
(* NewReaderForFile: mmap.MapExistingFileReadOnly, layout.NewDecoder and   *)
(* the version check of NewReader; Decoder.ForEachStatic, GetStaticValue.  *)

\* Buffer.GetInt32 on the statics section: four bytes, little-endian;
\* behind the section the reader finds the zeros of the sections that follow.
ByteOf(mem, o) == IF o \in DOMAIN mem THEN mem[o] ELSE 0
GetInt32(mem, off) ==
    ByteOf(mem, off) + 256 * ByteOf(mem, off + 1) + 65536 * ByteOf(mem, off + 2)
    + 16777216 * ByteOf(mem, off + 3)

\* Buffer.GetBytes / GetString on the statics section.
GetStaticBytes(mem, off, length) == [i \in 1 .. length |-> ByteOf(mem, off + i - 1)]

\* ForEachStatic with a consumer that returns true: the records it passes to
\* the consumer, reading n records from offset.
RECURSIVE StaticRecords(_, _, _)
StaticRecords(mem, offset, n) ==
    IF n = 0 THEN <<>>
    ELSE LET labelLength == GetInt32(mem, offset + staticsLabelLengthOffset)
             valueLength == GetInt32(mem, offset + staticsValueLengthOffset)
             label == GetStaticBytes(mem, offset + staticsLabelOffset, labelLength)
             value == GetStaticBytes(mem, offset + staticsLabelOffset + labelLength,
                                     valueLength)
         IN <<[label |-> label, value |-> value]>>
            \o StaticRecords(mem, offset + staticsRecordLength(labelLength, valueLength),
                             n - 1)

ForEachStaticRecords(mem) ==
    StaticRecords(mem, staticsRecordsOffset, GetInt32(mem, staticsNumberOfStaticsOffset))

\* The size NewWriterForFile gives the file: the sections, aligned to the page.
PageSize == 4096
CountersFileSize ==
    Align(HeaderLength + StaticsLength(cfg.statics) + MetadataLength(cfg.maxCounters)
          + ValuesLength(cfg.maxCounters), PageSize)

\* The walk over n records from offset leaves the mapped file: the read of
\* the unmapped address ends the reading process.
RECURSIVE StaticsFault(_, _, _)
StaticsFault(mem, offset, n) ==
    IF n = 0 THEN FALSE
    ELSE LET labelLength == GetInt32(mem, offset + staticsLabelLengthOffset)
             valueLength == GetInt32(mem, offset + staticsValueLengthOffset)
             next == offset + staticsRecordLength(labelLength, valueLength)
         IN \/ HeaderLength + next > CountersFileSize
            \/ StaticsFault(mem, next, n - 1)

ReadFaults(mem) ==
    StaticsFault(mem, staticsRecordsOffset, GetInt32(mem, staticsNumberOfStaticsOffset))

\* GetStaticValue: the value of the first record whose label equals the
\* query, or "label %s isn't found".
StaticNotFoundError == "NotFound"
GetStaticValueResult(mem, label) ==
    LET recs == ForEachStaticRecords(mem)
        hits == {k \in 1 .. Len(recs) : recs[k].label = label}
    IN IF ReadFaults(mem) THEN [kind |-> "fault", value |-> <<>>]
       ELSE IF hits = {} THEN [kind |-> StaticNotFoundError, value |-> <<>>]
       ELSE [kind |-> "ok",
             value |-> recs[CHOOSE k \in hits : \A j \in hits : k <= j].value]

UninitializedError == "Uninitialized"
VersionMismatchError == "VersionMismatch"

\* The outcome of NewReader's check of the version it read.
VersionTrusted(version) == "ok"
VersionCheck(version) ==
    IF version = 0 THEN UninitializedError
    ELSE IF version # CountersVersion THEN VersionMismatchError
    ELSE "ok"

\* mmap.MapExistingFileReadOnly: os.Open, mmap of the file's size
OpenerMap ==
    /\ opener.pc = "idle"
    /\ opener' = IF fileOnDisk = "absent"
                 THEN [IdleOpener EXCEPT !.pc = "done", !.result = "NotExist"]
                 ELSE IF fileOnDisk = "empty"
                      THEN [IdleOpener EXCEPT !.pc = "done", !.result = "MapFailed"]
                      ELSE [IdleOpener EXCEPT !.pc = "rn_s", !.mapped = TRUE]
    /\ UNCHANGED <<cfg, idStatus, labelLen, labelMem, values, idSequence, counters,
                   thr, rd, emitted, rdResult, issued, hist, sets, usr, log, opts,
                   fileOnDisk, header, statics, ctor, wclose>>

\* NewDecoder: staticsLength := int(header.GetInt32Volatile(headerStaticsLengthOffset))
OpenerLenS ==
    /\ opener.pc = "rn_s"
    /\ opener' = [opener EXCEPT !.pc = "rn_m", !.staticsLength = header.staticsLength]
    /\ UNCHANGED <<cfg, idStatus, labelLen, labelMem, values, idSequence, counters,
                   thr, rd, emitted, rdResult, issued, hist, sets, usr, log, opts,
                   fileOnDisk, header, statics, ctor, wclose>>

\* metadataLength := int(header.GetInt32(headerMetadataLengthOffset))
OpenerLenM ==
    /\ opener.pc = "rn_m"
    /\ opener' = [opener EXCEPT !.pc = "rn_v", !.metadataLength = header.metadataLength]
    /\ UNCHANGED <<cfg, idStatus, labelLen, labelMem, values, idSequence, counters,
                   thr, rd, emitted, rdResult, issued, hist, sets, usr, log, opts,
                   fileOnDisk, header, statics, ctor, wclose>>

\* valuesLength := int(header.GetInt32(headerValuesLengthOffset)); the Decoder is built
OpenerLenV ==
    /\ opener.pc = "rn_v"
    /\ opener' = [opener EXCEPT !.pc = "rn_version", !.valuesLength = header.valuesLength]
    /\ UNCHANGED <<cfg, idStatus, labelLen, labelMem, values, idSequence, counters,
                   thr, rd, emitted, rdResult, issued, hist, sets, usr, log, opts,
                   fileOnDisk, header, statics, ctor, wclose>>

\* NewReader: version := decoder.Version(); the two checks; return
OpenerVersion ==
    /\ opener.pc = "rn_version"
    /\ opener' = [opener EXCEPT !.pc = "done", !.version = header.version,
                                !.result = VersionCheck(header.version)]
    /\ UNCHANGED <<cfg, idStatus, labelLen, labelMem, values, idSequence, counters,
                   thr, rd, emitted, rdResult, issued, hist, sets, usr, log, opts,
                   fileOnDisk, header, statics, ctor, wclose>>

\* The caller gives up what NewReaderForFile returned; it may call it again.
OpenerDrop ==
    /\ opener.pc = "done"
    /\ opener' = IdleOpener
    /\ UNCHANGED <<cfg, idStatus, labelLen, labelMem, values, idSequence, counters,
                   thr, rd, emitted, rdResult, issued, hist, sets, usr, log, opts,
                   fileOnDisk, header, statics, ctor, wclose>>

\* Reader.ForEachStatic on the Reader NewReader returned, the whole call.
ForEachStatic ==
    /\ opener.pc = "done"
    /\ opener.result = "ok"
    /\ opener.mapped
    /\ opener' = [opener EXCEPT !.read = [NoStaticsRead EXCEPT
                        !.op = "forEach",
                        !.kind = IF ReadFaults(statics) THEN "fault" ELSE "ok",
                        !.records = IF ReadFaults(statics) THEN <<>>
                                    ELSE ForEachStaticRecords(statics)]]
    /\ UNCHANGED <<cfg, idStatus, labelLen, labelMem, values, idSequence, counters,
                   thr, rd, emitted, rdResult, issued, hist, sets, usr, log, opts,
                   fileOnDisk, header, statics, ctor, wclose>>

\* ForEachStatic with a consumer that returns false on its stop-th call: the
\* records it passes to the consumer, reading at most n records from offset.
RECURSIVE StaticRecordsUntil(_, _, _, _, _)
StaticRecordsUntil(mem, offset, n, delivered, stop) ==
    IF n = 0 THEN delivered
    ELSE LET labelLength == GetInt32(mem, offset + staticsLabelLengthOffset)
             valueLength == GetInt32(mem, offset + staticsValueLengthOffset)
             label == GetStaticBytes(mem, offset + staticsLabelOffset, labelLength)
             value == GetStaticBytes(mem, offset + staticsLabelOffset + labelLength,
                                     valueLength)
             out == Append(delivered, [label |-> label, value |-> value])
         IN IF ReturnsOn(consumer(out, stop)) THEN out
            ELSE StaticRecordsUntil(mem, offset + staticsRecordLength(labelLength, valueLength),
                                    n - 1, out, stop)

\* Reader.ForEachStatic with that consumer, the whole call.
ForEachStaticStop(stop) ==
    /\ opener.pc = "done"
    /\ opener.result = "ok"
    /\ opener.mapped
    /\ opener' = [opener EXCEPT !.read = [NoStaticsRead EXCEPT
                        !.op = "forEachStop", !.stop = stop,
                        !.kind = IF ReadFaults(statics) THEN "fault" ELSE "ok",
                        !.records = IF ReadFaults(statics) THEN <<>>
                                    ELSE StaticRecordsUntil(statics, staticsRecordsOffset,
                                            GetInt32(statics, staticsNumberOfStaticsOffset),
                                            <<>>, stop)]]
    /\ UNCHANGED <<cfg, idStatus, labelLen, labelMem, values, idSequence, counters,
                   thr, rd, emitted, rdResult, issued, hist, sets, usr, log, opts,
                   fileOnDisk, header, statics, ctor, wclose>>

\* NewEncoder: buf.Slice(uintptr(HeaderLength()), staticsLength),
\* buf.Slice(uintptr(HeaderLength()+staticsLength), metadataLength),
\* buf.Slice(uintptr(HeaderLength()+staticsLength+metadataLength), valuesLength):
\* where the sections begin in the file.
StaticsFileOffset == HeaderLength
MetadataFileOffset == HeaderLength + StaticsLength(cfg.statics)
ValuesFileOffset ==
    HeaderLength + StaticsLength(cfg.statics) + MetadataLength(cfg.maxCounters)

\* Where the id-status word, the label length and the value of slot s lie.
IdStatusFileOffset(s) ==
    MetadataFileOffset + s * metadataRecordLength + metadataCounterIDStatusOffset
LabelLengthFileOffset(s) ==
    MetadataFileOffset + s * metadataRecordLength + metadataLabelLengthOffset
ValueFileOffset(s) == ValuesFileOffset + s * valuesCounterLength

\* SetStatics: the offsets, in the statics section, of the records of the
\* map m with the sorted labels, the first of them at offset.
RECURSIVE StaticsRecordOffsets(_, _, _)
StaticsRecordOffsets(m, labels, offset) ==
    IF labels = <<>> THEN {}
    ELSE {offset} \cup
         StaticsRecordOffsets(m, Tail(labels),
            offset + staticsRecordLength(Len(Head(labels)), Len(m[Head(labels)])))

\* Reader.GetStaticValue(label), the whole call.
GetStaticValue(label) ==
    /\ opener.pc = "done"
    /\ opener.result = "ok"
    /\ opener.mapped
    /\ LET r == GetStaticValueResult(statics, label) IN
       opener' = [opener EXCEPT !.read = [NoStaticsRead EXCEPT
                        !.op = "get", !.label = label, !.kind = r.kind,
                        !.value = r.value]]
    /\ UNCHANGED <<cfg, idStatus, labelLen, labelMem, values, idSequence, counters,
                   thr, rd, emitted, rdResult, issued, hist, sets, usr, log, opts,
                   fileOnDisk, header, statics, ctor, wclose>>

\* The number of Reader.Close calls on one Reader.
MaxReaderCloses == 2

\* Reader.Close: return mmap.Unmap(r.buffer), the whole call; the Reader
\* keeps no closed flag, every call goes on to munmap.  On the mapped
\* region munmap releases it or reports an error.  On an address range that
\* is released already the call either finds nothing there and reports an
\* error, or finds and releases a mapping the process has made there since
\* (stray).
ReaderClose(result, stray) ==
    /\ opener.pc = "done"
    /\ opener.result = "ok"
    /\ opener.closes < MaxReaderCloses
    /\ IF opener.mapped
       THEN /\ ~stray
            /\ opener' = [opener EXCEPT !.closes = @ + 1, !.unmapCalls = @ + 1,
                                        !.mapped = (result = "error"),
                                        !.closeResults = Append(@, result)]
       ELSE /\ result = (IF stray THEN "nil" ELSE "error")
            /\ opener' = [opener EXCEPT !.closes = @ + 1, !.unmapCalls = @ + 1,
                                        !.strayUnmap = @ \/ stray,
                                        !.closeResults = Append(@, result)]
    /\ UNCHANGED <<cfg, idStatus, labelLen, labelMem, values, idSequence, counters,
                   thr, rd, emitted, rdResult, issued, hist, sets, usr, log, opts,
                   fileOnDisk, header, statics, ctor, wclose>>

-----------------------------------------------------------------------------
(* Writer.Close and Writer.IsClosed.                                       *)

\* The number of Writer.Close calls of a run.
MaxCloseCalls == 3

\* atomic.LoadInt32(&w.closed) != 0
IsClosed == wclose.closed # 0

\* What mmap.Unmap may return: nil or the error of the system call.
UnmapResults == {"nil", "error"}

\* The value Close's CAS stores into w.closed.
ClosedFlag == 1

\* atomic.CompareAndSwapInt32(&w.closed, 0, 1) succeeds on the value 0 only.
CASAlwaysWins(closed) == TRUE
CASWins(closed) == closed = 0

\* if !atomic.CompareAndSwapInt32(&w.closed, 0, 1) { return }
WriterCloseCAS(c) ==
    /\ wclose.caller[c].pc = "idle"
    /\ wclose.calls < MaxCloseCalls
    /\ \E p \in DOMAIN ctor : ctor[p].pc = "done"
    /\ AllIdle
    /\ wclose' = IF CASWins(wclose.closed)
                 THEN [wclose EXCEPT !.closed = ClosedFlag, !.calls = @ + 1,
                                     !.caller[c] = [pc |-> "unmap", result |-> "none"]]
                 ELSE [wclose EXCEPT !.calls = @ + 1, !.lost = @ + 1,
                                     !.lostResults = @ \cup {"nil"},
                                     !.caller[c] = [pc |-> "idle", result |-> "nil"]]
    /\ UNCHANGED <<cfg, idStatus, labelLen, labelMem, values, idSequence, counters,
                   thr, rd, emitted, rdResult, issued, hist, sets, usr, log, opts,
                   fileOnDisk, header, statics, ctor, opener>>

\* return mmap.Unmap(w.buffer)
WriterCloseUnmap(c, result) ==
    /\ wclose.caller[c].pc = "unmap"
    /\ wclose' = [wclose EXCEPT !.unmaps = @ + 1,
                                !.caller[c] = [pc |-> "idle", result |-> result]]
    /\ UNCHANGED <<cfg, idStatus, labelLen, labelMem, values, idSequence, counters,
                   thr, rd, emitted, rdResult, issued, hist, sets, usr, log, opts,
                   fileOnDisk, header, statics, ctor, opener>>

-----------------------------------------------------------------------------
(* Counter.Increment and Counter.GetAndAdd from several goroutines.  The   *)
(* value word is an int64: it is held here as four 16-bit limbs, lowest    *)
(* first, in two's complement, so that the additions wrap at 2^64.         *)

LimbBase == 65536

\* int64 addition, wrapping modulo 2^64.
Add64(a, b) ==
    LET s1 == a[1] + b[1]
        s2 == a[2] + b[2] + (s1 \div LimbBase)
        s3 == a[3] + b[3] + (s2 \div LimbBase)
        s4 == a[4] + b[4] + (s3 \div LimbBase)
    IN <<s1 % LimbBase, s2 % LimbBase, s3 % LimbBase, s4 % LimbBase>>

\* The int64 of a small natural number, and int64 negation and subtraction.
Nat64(n) == <<n % LimbBase, n \div LimbBase, 0, 0>>
Neg64(a) ==
    Add64(<<LimbBase - 1 - a[1], LimbBase - 1 - a[2], LimbBase - 1 - a[3],
            LimbBase - 1 - a[4]>>, Nat64(1))
Sub64(a, b) == Add64(a, Neg64(b))
Int64Of(n) == IF n >= 0 THEN Nat64(n) ELSE Neg64(Nat64(-n))

\* math.MaxInt64
MaxInt64 == <<LimbBase - 1, LimbBase - 1, LimbBase - 1, (LimbBase \div 2) - 1>>

\* The goroutines that update the counter, the number of their calls in a
\* run, the deltas they pass to GetAndAdd and the counter's initial values.
Updaters == {1, 2}
MaxUpdates == 3
UpdDeltas == {Int64Of(3), Int64Of(-5), MaxInt64}
UpdInitialValues == {Int64Of(0), Int64Of(-2), Sub64(MaxInt64, Nat64(1))}

\* A goroutine that made no call yet.
IdleUser == [rets |-> <<>>]

\* Counter 0 was added with the initial value init and is open; the
\* goroutines share its handle.
InitUpd ==
    \E init \in UpdInitialValues :
        /\ cfg = [maxCounters |-> 1, writers |-> {}, maxAdds |-> 1, init |-> init]
        /\ idStatus = [s \in {0} |-> makeIDStatus(0, counterStatusAllocated)]
        /\ labelLen = [s \in {0} |-> Len(LabelFor(0))]
        /\ labelMem = [s \in {0} |-> LabelFor(0)]
        /\ values = [s \in {0} |-> init]
        /\ idSequence = 0
        /\ counters = (0 :> [id |-> 0, label |-> LabelFor(0), valueOffset |-> 0,
                              closed |-> 0])
        /\ thr = [t \in {} |-> IdleThread]
        /\ rd = IdleReader
        /\ emitted = <<>>
        /\ rdResult = NoResult
        /\ issued = <<0>>
        /\ hist = NoCounters
        /\ sets = 0
        /\ fileOnDisk = "sized"
        /\ header = [version |-> CountersVersion,
                     staticsLength |-> StaticsLength(NoStatics),
                     metadataLength |-> MetadataLength(1),
                     valuesLength |-> ValuesLength(1),
                     pid |-> ThePid, startTime |-> TheStartTime]
        /\ statics = [o \in 0 .. (StaticsLength(NoStatics) - 1) |-> 0]
        /\ ctor = [p \in {1} |-> [IdleCtor EXCEPT !.pc = "done"]]
        /\ opener = IdleOpener
        /\ wclose = OpenWriter
        /\ usr = [u \in Updaters |-> IdleUser]
        /\ log = <<>>
        /\ opts = NoOptions

\* What GetAndAdd returns, from what AddInt64 returned: the value before.
GetAndAddReturnsNew(new, delta) == new
GetAndAddReturn(new, delta) == Sub64(new, delta)

\* Counter.Increment: return c.owner.values.AddInt64(c.valueOffset, 1);
\* atomic.AddInt64 adds and returns the new value in one step.
Increment(u, id) ==
    /\ id \in OpenIds
    /\ Len(log) < MaxUpdates
    /\ LET new == Add64(values[ValueSlot(counters[id].valueOffset)], Nat64(1)) IN
       /\ values' = [values EXCEPT ![ValueSlot(counters[id].valueOffset)] = new]
       /\ usr' = [usr EXCEPT ![u].rets = Append(@, new)]
       /\ log' = Append(log, [by |-> u, op |-> "Increment", delta |-> Nat64(1),
                              ret |-> new])
    /\ UNCHANGED <<lifeVars, opts, cfg, idStatus, labelLen, labelMem, idSequence, counters,
                   thr, rd, emitted, rdResult, issued, hist, sets>>

\* Counter.GetAndAdd: return c.owner.values.AddInt64(c.valueOffset, delta) - delta
GetAndAdd(u, id, delta) ==
    /\ id \in OpenIds
    /\ Len(log) < MaxUpdates
    /\ LET new == Add64(values[ValueSlot(counters[id].valueOffset)], delta) IN
       /\ values' = [values EXCEPT ![ValueSlot(counters[id].valueOffset)] = new]
       /\ usr' = [usr EXCEPT ![u].rets = Append(@, GetAndAddReturn(new, delta))]
       /\ log' = Append(log, [by |-> u, op |-> "GetAndAdd", delta |-> delta,
                              ret |-> GetAndAddReturn(new, delta)])
    /\ UNCHANGED <<lifeVars, opts, cfg, idStatus, labelLen, labelMem, idSequence, counters,
                   thr, rd, emitted, rdResult, issued, hist, sets>>

-----------------------------------------------------------------------------
(* TestConcurrentCountersModification: ping and pong on two counters with  *)
(* Counter.Get and Counter.Set.  The values stay far from the bounds of    *)
(* int64 and are held as integers.                                         *)

\* lastValue
PingPongLimit == 3

\* A goroutine at its first statement: currentValue0 := cnt0.Get()
StartingUser == [pc |-> "get0", currentValue0 |-> 0, currentValue1 |-> 0]

\* cnt0 and cnt1 were added with the initial values 0 and 1; go ping(); go pong()
InitPingPong ==
    /\ cfg = [maxCounters |-> 2, writers |-> {}, maxAdds |-> 2]
    /\ idStatus = [s \in {0, 1} |-> makeIDStatus(s, counterStatusAllocated)]
    /\ labelLen = [s \in {0, 1} |-> Len(LabelFor(s))]
    /\ labelMem = [s \in {0, 1} |-> LabelFor(s)]
    /\ values = [s \in {0, 1} |-> s]
    /\ idSequence = 1
    /\ counters = [i \in {0, 1} |-> [id |-> i, label |-> LabelFor(i),
                                      valueOffset |-> i * valuesCounterLength,
                                      closed |-> 0]]
    /\ thr = [t \in {} |-> IdleThread]
    /\ rd = IdleReader
    /\ emitted = <<>>
    /\ rdResult = NoResult
    /\ issued = <<0, 1>>
    /\ hist = NoCounters
    /\ sets = 0
    /\ fileOnDisk = "sized"
    /\ header = [version |-> CountersVersion,
                 staticsLength |-> StaticsLength(NoStatics),
                 metadataLength |-> MetadataLength(2),
                 valuesLength |-> ValuesLength(2),
                 pid |-> ThePid, startTime |-> TheStartTime]
    /\ statics = [o \in 0 .. (StaticsLength(NoStatics) - 1) |-> 0]
    /\ ctor = [p \in {1} |-> [IdleCtor EXCEPT !.pc = "done"]]
    /\ opener = IdleOpener
    /\ wclose = OpenWriter
    /\ usr = [u \in {"ping", "pong"} |-> StartingUser]
    /\ log = <<>>
    /\ opts = NoOptions

\* Counter.Get on cnt0 and on cnt1: GetInt64Volatile(c.valueOffset)
Get(id) == values[ValueSlot(counters[id].valueOffset)]

\* currentValue0 = cnt0.Get()
UserGet0(u) ==
    /\ usr[u].pc = "get0"
    /\ usr' = [usr EXCEPT ![u].currentValue0 = Get(0), ![u].pc = "get1"]
    /\ UNCHANGED <<lifeVars, cfg, idStatus, labelLen, labelMem, values, idSequence,
                   counters, thr, rd, emitted, rdResult, issued, hist, sets, log, opts>>

\* currentValue1 = cnt1.Get()
UserGet1(u) ==
    /\ usr[u].pc = "get1"
    /\ usr' = [usr EXCEPT ![u].currentValue1 = Get(1), ![u].pc = "loop"]
    /\ UNCHANGED <<lifeVars, cfg, idStatus, labelLen, labelMem, values, idSequence,
                   counters, thr, rd, emitted, rdResult, issued, hist, sets, log, opts>>

\* ping: if currentValue1 > currentValue0
PingMoves(currentValue0, currentValue1) == currentValue1 > currentValue0

\* pong: if currentValue1 == currentValue0
PongMovesBehind(currentValue0, currentValue1) == currentValue1 >= currentValue0
PongMoves(currentValue0, currentValue1) == currentValue1 = currentValue0

\* ping: for currentValue0 < lastValue { if ... { cnt0.Set(currentValue1) } ...
Ping ==
    /\ usr["ping"].pc = "loop"
    /\ IF usr["ping"].currentValue0 < PingPongLimit
       THEN /\ usr' = [usr EXCEPT !["ping"].pc = "get0"]
            /\ values' = IF PingMoves(usr["ping"].currentValue0, usr["ping"].currentValue1)
                         THEN [values EXCEPT ![ValueSlot(counters[0].valueOffset)] =
                                    usr["ping"].currentValue1]
                         ELSE values
       ELSE /\ usr' = [usr EXCEPT !["ping"].pc = "done"]
            /\ values' = values
    /\ UNCHANGED <<lifeVars, cfg, idStatus, labelLen, labelMem, idSequence,
                   counters, thr, rd, emitted, rdResult, issued, hist, sets, log, opts>>

\* pong: for currentValue0 < lastValue { if ... { cnt1.Set(currentValue1 + 1) } ...
Pong ==
    /\ usr["pong"].pc = "loop"
    /\ IF usr["pong"].currentValue0 < PingPongLimit
       THEN /\ usr' = [usr EXCEPT !["pong"].pc = "get0"]
            /\ values' = IF PongMoves(usr["pong"].currentValue0, usr["pong"].currentValue1)
                         THEN [values EXCEPT ![ValueSlot(counters[1].valueOffset)] =
                                    usr["pong"].currentValue1 + 1]
                         ELSE values
       ELSE /\ usr' = [usr EXCEPT !["pong"].pc = "done"]
            /\ values' = values
    /\ UNCHANGED <<lifeVars, cfg, idStatus, labelLen, labelMem, idSequence,
                   counters, thr, rd, emitted, rdResult, issued, hist, sets, log, opts>>

\* The steps of the goroutine ping, and of pong.
PingStep == UserGet0("ping") \/ UserGet1("ping") \/ Ping
PongStep == UserGet0("pong") \/ UserGet1("pong") \/ Pong

-----------------------------------------------------------------------------
(* The specifications.                                                     *)

WriterStep ==
    \/ \E t \in DOMAIN thr :
            AddStart(t, LabelFor(NextId(idSequence)), InitialValueFor(NextId(idSequence)))
    \/ \E t \in DOMAIN thr : AddLoad(t)
    \/ \E t \in DOMAIN thr : AddCAS(t)
    \/ \E t \in DOMAIN thr : AddPutLen(t)
    \/ \E t \in DOMAIN thr : AddPutBytes(t)
    \/ \E t \in DOMAIN thr : AddPutValue(t)
    \/ \E t \in DOMAIN thr : AddPublish(t)
    \/ \E t \in DOMAIN thr, id \in DOMAIN counters : CloseStart(t, id)
    \/ \E t \in DOMAIN thr : FreeLoad(t)
    \/ \E t \in DOMAIN thr : FreeCAS(t)
    \/ \E t \in DOMAIN thr, id \in DOMAIN counters : CounterSet(t, id, SetValueFor(id))

ReaderStep ==
    \/ \E op \in {"forEach", "getValue", "getLabel"}, id \in {-1} \cup LookupIds :
            RdStart(op, id)
    \/ FeLoad \/ FeLen \/ FeBytes \/ FeVal \/ FeCheck
    \/ GvLoad \/ GvVal \/ GvCheck
    \/ GlLoad \/ GlLen \/ GlBytes \/ GlCheck

\* Writer goroutines and a reader, all running at once.
Next == WriterStep \/ ReaderStep \/ RdDrop

Spec == Init /\ [][Next]_vars

\* The writer goroutines alone.
SpecW == InitW /\ [][WriterStep]_vars

\* One writer goroutine, and a reader whose calls run while the writer
\* takes no step (the writer may be stopped anywhere, also inside a call).
NextSeq ==
    \/ rd.pc = "idle" /\ WriterStep
    \/ ReaderStep
    \/ RdDrop

SpecSeq == InitSeq /\ [][NextSeq]_vars

\* One goroutine adds counters with labels around the cap and closes them;
\* the reader's calls run between the writer's calls.
LabelWriterStep ==
    \/ \E t \in DOMAIN thr, n \in LabelLengths :
            AddStart(t, LongLabelFor(NextId(idSequence), n), InitialValueFor(NextId(idSequence)))
    \/ \E t \in DOMAIN thr : AddLoad(t)
    \/ \E t \in DOMAIN thr : AddCAS(t)
    \/ \E t \in DOMAIN thr : AddPutLen(t)
    \/ \E t \in DOMAIN thr : AddPutBytes(t)
    \/ \E t \in DOMAIN thr : AddPutValue(t)
    \/ \E t \in DOMAIN thr : AddPublish(t)
    \/ \E t \in DOMAIN thr, id \in DOMAIN counters : CloseStart(t, id)
    \/ \E t \in DOMAIN thr : FreeLoad(t)
    \/ \E t \in DOMAIN thr : FreeCAS(t)

NextLabel ==
    \/ rd.pc = "idle" /\ LabelWriterStep
    \/ AllIdle /\ ReaderStep
    \/ RdDrop

SpecLabel == InitLabel /\ [][NextLabel]_vars

\* The same scheduling, on the file of the slot reuse scenario.
SpecReuse == InitReuse /\ [][NextSeq]_vars

\* The writer exists: some NewWriterForFile call returned it.
WriterConstructed == \E p \in DOMAIN ctor : ctor[p].pc = "done"

OpenerStep ==
    \/ OpenerMap
    \/ OpenerLenS
    \/ OpenerLenM
    \/ OpenerLenV
    \/ OpenerVersion
    \/ OpenerDrop
    \/ ForEachStatic
    \/ \E label \in LifeLabels : GetStaticValue(label)
    \/ \E result \in UnmapResults, stray \in BOOLEAN : ReaderClose(result, stray)

WriterCloseStep ==
    \/ \E c \in Closers : WriterCloseCAS(c)
    \/ \E c \in Closers, result \in UnmapResults : WriterCloseUnmap(c, result)

\* The birth of one counters file: two NewWriterForFile calls race for the
\* path, a reader opens it at any moment and reads the statics.
NextLife == CtorStep \/ OpenerStep

SpecLife == InitLife /\ [][NextLife]_vars

\* The writer's side of the file's life: two NewWriterForFile calls race for
\* the path, the owner of the writer uses the counters until it closes it.
NextOwner ==
    \/ CtorStep
    \/ (WriterConstructed /\ ~IsClosed /\ WriterStep)
    \/ (WriterConstructed /\ ~IsClosed
            /\ \E t \in DOMAIN thr, id \in OpenIds, delta \in AddDeltas : CounterAdd(t, id, delta))
    \/ WriterCloseStep

SpecOwner == InitLife /\ [][NextOwner]_vars

\* Two goroutines update one open counter.
NextUpd ==
    \/ \E u \in Updaters, id \in OpenIds : Increment(u, id)
    \/ \E u \in Updaters, id \in OpenIds, delta \in UpdDeltas : GetAndAdd(u, id, delta)

SpecUpd == InitUpd /\ [][NextUpd]_vars

\* ping and pong run as two goroutines; the scheduler lets each of them take
\* its next step again and again (wg.Wait() returns only if both finish).
NextPingPong == PingStep \/ PongStep

SpecPingPong ==
    InitPingPong /\ [][NextPingPong]_vars /\ WF_vars(PingStep) /\ WF_vars(PongStep)

-----------------------------------------------------------------------------
(* What the claims speak of.                                               *)

StatusOf(s) == extractStatus(idStatus[s])
IdOf(s) == extractID(idStatus[s])

\* The first cap bytes of a label.
Truncated(label) == SubSeq(label, 1, Min(Len(label), 380))

\* The slot the handle of id writes its value to.
SlotOfHandle(id) == counters[id].valueOffset \div 128

\* The first NotUsed slot, or the number of slots when there is none.
Horizon ==
    IF \E s \in Slots : StatusOf(s) = 0
    THEN CHOOSE s \in Slots : StatusOf(s) = 0 /\ \A r \in Slots : r < s => StatusOf(r) # 0
    ELSE cfg.maxCounters

IsLookup == rd.op \in {"getValue", "getLabel"}

-----------------------------------------------------------------------------
\* C1: every triple ForEachCounter emits, and every value or label a lookup
\* returns, was in one slot at one instant of the call, under the id it is
\* reported for and with that id Allocated; the label is the truncated label
\* the id was added with, and the value is one the counter of that id held.
TearFreeReads ==
    /\ \A k \in 1 .. Len(emitted) :
         LET e == emitted[k] IN
         /\ e.at.w = e.id * 256 + 2
         /\ e.at.value = e.value
         /\ e.at.len = Len(e.label)
         /\ \A i \in 1 .. Len(e.label) : e.at.mem[i] = e.label[i]
         /\ e.id \in DOMAIN hist
         /\ e.label = Truncated(hist[e.id].label)
         /\ e.value \in hist[e.id].held
    /\ (rd.pc = "done" /\ rdResult.kind = "ok") =>
         /\ rdResult.at.w = rd.id * 256 + 2
         /\ rd.id \in DOMAIN hist
         /\ rd.op = "getValue" =>
              /\ rdResult.at.value = rdResult.value
              /\ rdResult.value \in hist[rd.id].held
         /\ rd.op = "getLabel" =>
              /\ rdResult.at.len = Len(rdResult.label)
              /\ \A i \in 1 .. Len(rdResult.label) : rdResult.at.mem[i] = rdResult.label[i]
              /\ rdResult.label = Truncated(hist[rd.id].label)

\* The reader is about to re-read the id-status word, holding a torn label:
\* it copied the bytes while an add to the reused slot was writing them.
TearFreeReadsWitness ==
    /\ rd.pc \in {"fe_check", "gl_check"}
    /\ Len(rd.label) = 2
    /\ rd.label[1] # rd.label[2]

-----------------------------------------------------------------------------
\* C2: every slot's status is NotUsed, AllocationInProgress, Allocated or
\* Freed; a step changes a status only along NotUsed -> AllocationInProgress,
\* Freed -> AllocationInProgress, AllocationInProgress -> Allocated and
\* Allocated -> Freed; no slot returns to NotUsed; the id of a slot's word
\* changes only on the step into AllocationInProgress.
SlotStateMachine ==
    /\ [](\A s \in Slots : StatusOf(s) \in {0, 1, 2, 3})
    /\ [][\A s \in Slots :
            LET st == idStatus[s] % 256
                st2 == idStatus'[s] % 256
                id == idStatus[s] \div 256
                id2 == idStatus'[s] \div 256
            IN /\ st2 # st => <<st, st2>> \in {<<0, 1>>, <<3, 1>>, <<1, 2>>, <<2, 3>>}
               /\ st2 = 0 => st = 0
               /\ id2 # id => st2 = 1 /\ st # 1]_vars

\* A slot that was freed is AllocationInProgress again, under another id.
SlotStateMachineWitness ==
    \E s \in Slots, i \in DOMAIN counters :
        /\ StatusOf(s) = 1
        /\ IdOf(s) # i
        /\ SlotOfHandle(i) = s
        /\ hist[i].closeRet

-----------------------------------------------------------------------------
\* C3: the first id issued is 0 and the ids are issued in strictly
\* increasing order with no duplicates and no gaps, also when the adds run
\* concurrently on several goroutines.
IdsIssuedInOrder ==
    \A k \in 1 .. Len(issued) : issued[k] = k - 1

\* Two adds are running at once and all the ids of the run are issued.
IdsIssuedInOrderWitness ==
    /\ Len(issued) = cfg.maxAdds
    /\ \A t \in DOMAIN thr : thr[t].pc \in {"add_load", "add_cas"}

-----------------------------------------------------------------------------
\* C4: no two slots that are not NotUsed carry the same id, and an id is
\* written into at most one slot over the whole run.
IdsUniqueInFile ==
    /\ \A s, r \in Slots : (s # r /\ StatusOf(s) # 0 /\ StatusOf(r) # 0) => IdOf(s) # IdOf(r)
    /\ \A i \in DOMAIN hist : Cardinality(hist[i].slots) <= 1

\* Two slots are in use at once, one of them taken again after a free.
IdsUniqueInFileWitness ==
    /\ \A s \in Slots : StatusOf(s) \in {1, 2}
    /\ cfg.maxCounters = 2
    /\ \E i \in DOMAIN counters : hist[i].closeRet

-----------------------------------------------------------------------------
\* C5: if a slot is not NotUsed, no slot of a lower index is NotUsed.
AllocatedPrefix ==
    \A s \in Slots : StatusOf(s) # 0 => \A r \in Slots : r < s => StatusOf(r) # 0

\* Two adds run at once: the higher slot is taken while the lower one is
\* still AllocationInProgress.
AllocatedPrefixWitness ==
    /\ cfg.maxCounters = 2
    /\ StatusOf(0) = 1
    /\ StatusOf(1) \in {1, 2}

-----------------------------------------------------------------------------
\* C6: a lookup by id that starts after the add returned and ends before the
\* counter is set or closed returns the label (of at most 380 bytes) and the
\* initial value the counter was added with, whatever the other goroutine
\* adds and closes meanwhile.
LookupAfterAdd ==
    (/\ rd.pc = "done"
     /\ IsLookup
     /\ rd.pre
     /\ rd.id \in OpenIds
     /\ ~hist[rd.id].upd
     /\ Len(hist[rd.id].label) <= 380)
    => /\ rdResult.kind = "ok"
       /\ rd.op = "getLabel" => rdResult.label = hist[rd.id].label
       /\ rd.op = "getValue" => rdResult.value = hist[rd.id].init

\* The lookup found its counter in slot 1, behind a slot the other counter
\* was added to and freed from.
LookupAfterAddWitness ==
    /\ rd.pc = "done"
    /\ IsLookup
    /\ rd.pre
    /\ rd.id \in OpenIds
    /\ ~hist[rd.id].upd
    /\ rdResult.kind = "ok"
    /\ SlotOfHandle(rd.id) = 1
    /\ StatusOf(0) = 3

-----------------------------------------------------------------------------
\* C7: a lookup by id that starts after the close of the id's handle
\* returned ends with NotAllocated or NotFound.
LookupAfterClose ==
    (rd.pc = "done" /\ IsLookup /\ rd.closedBefore)
    => rdResult.kind \in {"NotAllocated", "NotFound"}

\* The lookup ended NotFound: the slot of the closed counter is Allocated to
\* another id.
LookupAfterCloseWitness ==
    /\ rd.pc = "done"
    /\ IsLookup
    /\ rd.closedBefore
    /\ rdResult.kind = "NotFound"
    /\ StatusOf(SlotOfHandle(rd.id)) = 2
    /\ IdOf(SlotOfHandle(rd.id)) # rd.id

-----------------------------------------------------------------------------
\* C8: with the calls issued one at a time, an add succeeds if and only if
\* fewer than maxCounters counters are open when it is called.
CapacitySequential ==
    \A i \in DOMAIN hist :
        hist[i].result # "running" =>
            (hist[i].result = "ok" <=> hist[i].open < cfg.maxCounters)

\* maxCounters adds succeeded, the next one failed, and after a close an add
\* succeeded again.
CapacitySequentialWitness ==
    /\ cfg.maxCounters = 2
    /\ DOMAIN hist = 0 .. 3
    /\ hist[0].result = "ok"
    /\ hist[1].result = "ok"
    /\ hist[2].result = "OutOfSlots"
    /\ hist[3].result = "ok"

-----------------------------------------------------------------------------
\* C9: a ForEachCounter call that runs while no writer call is in progress
\* emits the counters that were added and are not closed, each once, with
\* its id, its current value and its label, in ascending slot order.
ForEachEmitsOpenCounters ==
    (rd.pc = "done" /\ rd.op = "forEach" /\ rd.alone)
    => /\ Len(emitted) = Cardinality(OpenIds)
       /\ \A k \in 1 .. Len(emitted) :
            /\ emitted[k].id \in OpenIds
            /\ emitted[k].value = values[SlotOfHandle(emitted[k].id)]
            /\ emitted[k].label = Truncated(counters[emitted[k].id].label)
       /\ \A k, l \in 1 .. Len(emitted) :
            k < l => SlotOfHandle(emitted[k].id) < SlotOfHandle(emitted[l].id)

\* The call skipped the freed slot 0 and emitted the counter of slot 1 with
\* the value it was set to.
ForEachEmitsOpenCountersWitness ==
    /\ rd.pc = "done"
    /\ rd.op = "forEach"
    /\ rd.alone
    /\ cfg.maxCounters = 2
    /\ StatusOf(0) = 3
    /\ Len(emitted) = 1
    /\ SlotOfHandle(emitted[1].id) = 1
    /\ hist[emitted[1].id].upd

-----------------------------------------------------------------------------
\* C10: a lookup returns NotAllocated when a slot below the first NotUsed
\* slot carries its id in a status other than Allocated, and NotFound when
\* no slot below the first NotUsed slot carries its id.
LookupErrors ==
    (rd.pc = "done" /\ IsLookup)
    => /\ (\E s \in Slots : s < Horizon /\ IdOf(s) = rd.id /\ StatusOf(s) # 2)
            => rdResult.kind = "NotAllocated"
       /\ (~ \E s \in Slots : s < Horizon /\ IdOf(s) = rd.id)
            => rdResult.kind = "NotFound"

\* The lookup ended NotAllocated on a slot whose add is still in progress.
LookupErrorsWitness ==
    /\ rd.pc = "done"
    /\ IsLookup
    /\ rdResult.kind = "NotAllocated"
    /\ \E s \in Slots : IdOf(s) = rd.id /\ StatusOf(s) = 1

-----------------------------------------------------------------------------
\* C11: with one goroutine calling, an add that finds a NotUsed or Freed
\* slot puts its counter into the lowest such slot, under its own fresh id;
\* a ForEachCounter call made while no writer call runs then emits the
\* counter of slot 0 first and emits no closed counter.
LowestFirstReuse ==
    /\ \A i \in DOMAIN hist :
         (hist[i].result # "running" /\ hist[i].lowest # -1)
         => /\ hist[i].slots = {hist[i].lowest}
            /\ i \in DOMAIN counters
            /\ counters[i].valueOffset = 128 * hist[i].lowest
    /\ \A i \in DOMAIN counters :
         counters[i].closed = 0 => idStatus[counters[i].valueOffset \div 128] = i * 256 + 2
    /\ (rd.pc = "done" /\ rd.op = "forEach" /\ rd.alone)
       => /\ \A k \in 1 .. Len(emitted) : emitted[k].id \in OpenIds
          /\ (cfg.maxCounters > 0 /\ idStatus[0] % 256 = 2)
             => (Len(emitted) > 0 /\ emitted[1].id = idStatus[0] \div 256)

\* The scenario: A, B, C were added (ids 0, 1, 2), A was closed, D was added
\* (id 3) and is in slot 0; the iteration emitted D first and nothing for id 0.
LowestFirstReuseWitness ==
    /\ rd.pc = "done"
    /\ rd.op = "forEach"
    /\ rd.alone
    /\ DOMAIN counters = 0 .. 3
    /\ counters[0].closed = 1
    /\ OpenIds = {1, 2, 3}
    /\ idStatus[0] = 3 * 256 + 2
    /\ Len(emitted) = 3
    /\ emitted[1].id = 3
    /\ \A k \in 1 .. 3 : emitted[k].id # 0

-----------------------------------------------------------------------------
\* C12: the label length stored for a counter is the smaller of its label's
\* length and 380, and the stored bytes are the first bytes of the label;
\* ForEachCounter and GetCounterLabel return exactly the first 380 bytes of
\* a longer label and a label of at most 380 bytes unchanged, also in a slot
\* whose previous occupant had a longer label.
LabelTruncation ==
    /\ \A s \in Slots :
         (AllIdle /\ idStatus[s] % 256 = 2) =>
            LET L == hist[idStatus[s] \div 256].label IN
            /\ labelLen[s] = IF Len(L) > 380 THEN 380 ELSE Len(L)
            /\ \A i \in 1 .. labelLen[s] : labelMem[s][i] = L[i]
    /\ \A k \in 1 .. Len(emitted) :
         LET L == hist[emitted[k].id].label IN
         emitted[k].label = IF Len(L) > 380 THEN SubSeq(L, 1, 380) ELSE L
    /\ (rd.pc = "done" /\ rd.op = "getLabel" /\ rdResult.kind = "ok") =>
         LET L == hist[rd.id].label IN
         rdResult.label = IF Len(L) > 380 THEN SubSeq(L, 1, 380) ELSE L

\* The label of 381 bytes was stored as 380 bytes; its slot was freed and
\* taken by a counter with a label of 2 bytes, which the lookup returned.
LabelTruncationWitness ==
    /\ rd.pc = "done"
    /\ rd.op = "getLabel"
    /\ rd.id = 1
    /\ rdResult.kind = "ok"
    /\ Len(rdResult.label) = 2
    /\ Len(hist[0].label) = 381
    /\ Len(labelMem[0]) = 380

-----------------------------------------------------------------------------
(* The file's birth: NewWriterForFile, NewReaderForFile, Writer.Close.     *)

\* Some NewWriterForFile call created the file: it is past os.OpenFile.
Created == \E p \in DOMAIN ctor : ctor[p].pc \notin {"start", "failed"}

\* The records of the statics map m, in ascending byte order of the label.
RecordsOf(m) ==
    LET labels == SortedLabels(DOMAIN m) IN
    [k \in 1 .. Len(labels) |-> [label |-> labels[k], value |-> m[labels[k]]]]

\* C13: in every state of a file NewWriterForFile created where the version
\* is nonzero, the three section lengths, the pid, the start time, the
\* statics count and every statics record hold their final values.
VersionPublishedLast ==
    (Created /\ header.version # 0) =>
        /\ header.staticsLength = StaticsLength(cfg.statics)
        /\ header.metadataLength = MetadataLength(cfg.maxCounters)
        /\ header.valuesLength = ValuesLength(cfg.maxCounters)
        /\ header.pid = ThePid
        /\ header.startTime = TheStartTime
        /\ GetInt32(statics, staticsNumberOfStaticsOffset) = Cardinality(DOMAIN cfg.statics)
        /\ ~ReadFaults(statics)
        /\ ForEachStaticRecords(statics) = RecordsOf(cfg.statics)

\* The writer published the version of a file with two statics records.
VersionPublishedLastWitness ==
    /\ Created
    /\ header.version = CountersVersion
    /\ Cardinality(DOMAIN cfg.statics) = 2
    /\ \E l \in DOMAIN cfg.statics : cfg.statics[l] # <<>>

\* C14: a reader constructed on a file NewWriterForFile created either
\* fails with Uninitialized or is built with exactly the section lengths the
\* writer published, never with lengths read before the writer stored them.
ReaderTrustsPublishedLengths ==
    (Created /\ opener.pc = "done" /\ opener.mapped) =>
        \/ opener.result = UninitializedError
        \/ /\ opener.result = "ok"
           /\ opener.staticsLength = StaticsLength(cfg.statics)
           /\ opener.metadataLength = MetadataLength(cfg.maxCounters)
           /\ opener.valuesLength = ValuesLength(cfg.maxCounters)

\* C15: NewReaderForFile on a mapped file whose version field reads 0 fails
\* with Uninitialized, on one whose version is nonzero and not 1 it fails
\* with VersionMismatch, and it succeeds only when the version is 1.
VersionGate ==
    (opener.pc = "done" /\ opener.mapped) =>
        /\ opener.version = 0 => opener.result = "Uninitialized"
        /\ (opener.version # 0 /\ opener.version # 1) => opener.result = "VersionMismatch"
        /\ opener.result = "ok" <=> opener.version = 1
        /\ opener.result = "ok" => header.version = 1
        /\ header.version = 2 => opener.result = "VersionMismatch"

\* The writer wrote the lengths and the statics and stopped before
\* SetVersion; the reader that opened the file then got Uninitialized.
VersionGateWitness ==
    /\ opener.pc = "done"
    /\ opener.mapped
    /\ opener.result = "Uninitialized"
    /\ opener.staticsLength = StaticsLength(cfg.statics)
    /\ \E p \in DOMAIN ctor : ctor[p].pc = "version"

\* The byte of a label at a place, the end of the label counting as less
\* than every byte.
ByteOrEnd(s, i) == IF i <= Len(s) THEN s[i] ELSE -1

\* Ascending byte order of labels: at the first place where they differ the
\* first has the smaller byte, or has ended.
Precedes(a, b) ==
    \E i \in 1 .. Max(Len(a), Len(b)) :
        /\ ByteOrEnd(a, i) < ByteOrEnd(b, i)
        /\ \A j \in 1 .. (i - 1) : ByteOrEnd(a, j) = ByteOrEnd(b, j)

\* C16: on a file written with the statics map M, ForEachStatic emits
\* exactly |M| records, the (label, value) pairs of M in ascending byte order
\* of the label, and GetStaticValue(label) returns M[label] for a label of M
\* and NotFound for every other label.
StaticsRoundTrip ==
    LET M == cfg.statics
        read == opener.read
    IN /\ (opener.result = "ok" /\ read.op = "forEach") =>
            /\ read.kind = "ok"
            /\ Len(read.records) = Cardinality(DOMAIN M)
            /\ \A k \in 1 .. Len(read.records) :
                 /\ read.records[k].label \in DOMAIN M
                 /\ read.records[k].value = M[read.records[k].label]
            /\ \A j, k \in 1 .. Len(read.records) :
                 j < k => Precedes(read.records[j].label, read.records[k].label)
       /\ (opener.result = "ok" /\ read.op = "get") =>
            IF read.label \in DOMAIN M
            THEN read.kind = "ok" /\ read.value = M[read.label]
            ELSE read.kind = "NotFound"

\* The map {"AB" -> "xyz", "B" -> ""} was written and ForEachStatic gave
\* its two records, "AB" first.
StaticsRoundTripWitness ==
    /\ opener.result = "ok"
    /\ opener.read.op = "forEach"
    /\ DOMAIN cfg.statics = {<<65, 66>>, <<66>>}
    /\ opener.read.records = <<[label |-> <<65, 66>>, value |-> <<120, 121, 122>>],
                               [label |-> <<66>>, value |-> <<>>]>>

\* The count field of the statics section as a reader that looks into the
\* section now reads it.
CountNow == GetInt32(statics, staticsNumberOfStaticsOffset)

\* C17: in every state of a file NewWriterForFile created in which the
\* statics count field reads N, all N records (label length, value length,
\* label bytes, value bytes) are completely written: the walk over the
\* section gives the first N records of the statics map.
StaticsCountCoversRecords ==
    Created =>
        /\ CountNow <= Cardinality(DOMAIN cfg.statics)
        /\ ~ReadFaults(statics)
        /\ ForEachStaticRecords(statics) = SubSeq(RecordsOf(cfg.statics), 1, CountNow)

\* C18: once the version is nonzero, no step changes the header fields
\* (version, section lengths, pid, start time) or the statics section:
\* AddCounter, FreeCounter, Counter.Set, Counter.Increment, Counter.GetAndAdd,
\* Counter.Close and Writer.Close leave them as they are.
HeaderAndStaticsFrozen ==
    [][header.version # 0 => (header' = header /\ statics' = statics)]_vars

\* With the version published and two statics in the file, a counter was
\* added, set and closed, its slot freed, and the writer closed.
HeaderAndStaticsFrozenWitness ==
    /\ header.version = CountersVersion
    /\ Cardinality(DOMAIN cfg.statics) = 2
    /\ sets > 0
    /\ 0 \in DOMAIN counters
    /\ counters[0].closed # 0
    /\ idStatus[0] = makeIDStatus(0, counterStatusFreed)
    /\ IsClosed

\* The NewWriterForFile calls that got the file from MapNewFile's os.OpenFile.
Creators == {p \in DOMAIN ctor : ctor[p].pc \notin {"start", "failed"}}

\* C19: a NewWriterForFile call that finds the path existing fails with the
\* file-exists error of the exclusive open, and of the calls made for one
\* path at most one gets the file, so no file has two writers initialising
\* or allocating in it.
ExclusiveCreation ==
    /\ Cardinality(Creators) <= 1
    /\ \A p \in DOMAIN ctor :
         /\ (ctor[p].pc # "start" /\ ctor[p].sawFile) =>
                (ctor[p].pc = "failed" /\ ctor[p].err = "FileExists")
         /\ p \in Creators => ~ctor[p].sawFile

\* Two calls raced for a free path: the second found the file the first had
\* created and failed, the first finished its construction.
ExclusiveCreationWitness ==
    /\ ctor[1].pc = "done"
    /\ ctor[2].pc = "failed"
    /\ ctor[2].err = "FileExists"
    /\ ctor[2].sawFile

\* C20: however many Writer.Close calls are made, one after another or
\* from concurrent goroutines, the region is unmapped at most once and, when
\* the calls have returned, exactly once, by the call that won the CAS;
\* every other call did nothing and returned no error; IsClosed is true from
\* the first call's CAS on, also when the unmap reported an error.
CloseSingleShot ==
    /\ wclose.unmaps <= 1
    /\ wclose.calls >= 1 => IsClosed
    /\ wclose.calls >= 1 => wclose.lost = wclose.calls - 1
    /\ wclose.lostResults \subseteq {"nil"}
    /\ (wclose.calls >= 1 /\ \A c \in Closers : wclose.caller[c].pc = "idle") =>
            wclose.unmaps = 1
    /\ Cardinality({c \in Closers : wclose.caller[c].pc = "unmap"}) + wclose.unmaps
            = (IF wclose.calls >= 1 THEN 1 ELSE 0)
    /\ \A c \in Closers : wclose.caller[c].result = "error" => IsClosed

\* Three Close calls from two goroutines: the winner's unmap reported an
\* error, the two other calls returned nil, the writer is closed.
CloseSingleShotWitness ==
    /\ wclose.calls = 3
    /\ wclose.unmaps = 1
    /\ wclose.lost = 2
    /\ \E c \in Closers : wclose.caller[c].result = "error"
    /\ \E c \in Closers : wclose.caller[c].result = "nil"
    /\ IsClosed

-----------------------------------------------------------------------------
(* Reader.Close, Counter.Close, the Counter's updates.                     *)

\* C21: the first Reader.Close releases the read-only mapping, and a later
\* Close on the same Reader is a no-op: it makes no further unmap call,
\* releases nothing and returns no error.
ReaderCloseSingleShot ==
    (opener.pc = "done" /\ opener.result = "ok") =>
        /\ opener.unmapCalls <= 1
        /\ ~opener.strayUnmap
        /\ \A k \in 2 .. Len(opener.closeResults) : opener.closeResults[k] = "nil"
        /\ (opener.closes >= 1 /\ opener.closeResults[1] = "nil") => ~opener.mapped

\* Counter.IsClosed: atomic.LoadInt32(&c.closed) != 0
CounterIsClosed(id) == counters[id].closed # 0

\* C22: on every handle IsClosed is false until the first Close call and
\* true from then on; over all the Close calls on the handle, made one after
\* another or by several goroutines, FreeCounter is entered exactly once; and
\* when that call returns, the counter's slot is Freed and still carries the
\* counter's id.
CounterCloseSingleShot ==
    [][ /\ \A id \in DOMAIN counters :
            /\ CounterIsClosed(id) <=> hist[id].frees = 1
            /\ hist[id].frees <= 1
            /\ CounterIsClosed(id) => CounterIsClosed(id)'
            /\ hist[id].closeRet => CounterIsClosed(id)
            /\ (~hist[id].closeRet /\ hist'[id].closeRet) =>
                  \E s \in Slots : idStatus'[s] = makeIDStatus(id, counterStatusFreed)
        /\ \A id \in DOMAIN counters' :
            /\ CounterIsClosed(id)' <=> hist'[id].frees = 1
            /\ id \notin DOMAIN counters => ~CounterIsClosed(id)' ]_vars

\* Two goroutines: counter 0 was closed by one of them, its FreeCounter
\* returned and left the slot Freed with id 0, while the other goroutine is
\* closing counter 1.
CounterCloseSingleShotWitness ==
    /\ {0, 1} \subseteq DOMAIN counters
    /\ CounterIsClosed(0)
    /\ hist[0].closeRet
    /\ hist[0].frees = 1
    /\ idStatus[0] = makeIDStatus(0, counterStatusFreed)
    /\ CounterIsClosed(1)
    /\ ~hist[1].closeRet

\* The value of the counter after the first k updates of the log.
RECURSIVE ValueAfter(_)
ValueAfter(k) ==
    IF k = 0 THEN cfg.init ELSE Add64(ValueAfter(k - 1), log[k].delta)

\* C23: with several goroutines calling Increment and GetAndAdd(delta) on
\* one open counter no update is lost: the value is the initial value plus
\* the sum of all deltas modulo 2^64, and in the one order in which the
\* updates took effect every Increment returned the value right after its
\* own addition and every GetAndAdd the value right before its own.
AtomicUpdates ==
    /\ values[0] = ValueAfter(Len(log))
    /\ \A k \in 1 .. Len(log) :
         IF log[k].op = "Increment"
         THEN log[k].ret = ValueAfter(k)
         ELSE log[k].ret = ValueAfter(k - 1)
    /\ \A u \in DOMAIN usr :
         Len(usr[u].rets) = Cardinality({k \in 1 .. Len(log) : log[k].by = u})

\* From MaxInt64 - 1 one goroutine's Increment returned MaxInt64, the other's
\* GetAndAdd(MaxInt64) returned MaxInt64 and wrapped the value to -2, and
\* the next Increment returned -1.
AtomicUpdatesWitness ==
    /\ cfg.init = Sub64(MaxInt64, Nat64(1))
    /\ Len(log) = 3
    /\ log[1].op = "Increment" /\ log[1].ret = MaxInt64
    /\ log[2].op = "GetAndAdd" /\ log[2].delta = MaxInt64 /\ log[2].ret = MaxInt64
    /\ log[2].by # log[1].by
    /\ log[3].op = "Increment" /\ log[3].ret = Int64Of(-1)
    /\ values[0] = Int64Of(-1)

\* C24: in the ping-pong of two counters c0 (initially 0) and c1
\* (initially 1) with the limit N, every reachable state has
\* c0 <= c1 <= c0 + 1, and under fair scheduling both goroutines end, with
\* c0 = N.
PingPong ==
    /\ [](Get(0) <= Get(1) /\ Get(1) <= Get(0) + 1)
    /\ <>[](usr["ping"].pc = "done" /\ usr["pong"].pc = "done" /\ Get(0) = PingPongLimit)

\* Both goroutines left their loops; c0 and c1 are at the limit.
PingPongWitness ==
    /\ usr["ping"].pc = "done"
    /\ usr["pong"].pc = "done"
    /\ Get(0) = PingPongLimit
    /\ Get(1) = PingPongLimit

-----------------------------------------------------------------------------
(* TestConcurrentCountersAddClose: gen0 and gen1 repeat addAndCloseCounter *)
(* on one Writer and one Reader.                                           *)

\* gen0 and gen1.
Generators == {1, 2}
\* The largest numberOfCounters of a run; the smallest is 2.
GenMaxCounters == 3
\* The number of addAndCloseCounter calls of a run, over both goroutines.
GenAdds == 4

\* A goroutine before its first addAndCloseCounter call.
StartingGenerator == [pc |-> "add", id |-> -1, done |-> 0, seen |-> TRUE, gone |-> TRUE]

InitGen ==
    \E m \in 2 .. GenMaxCounters :
        /\ InitCounters([maxCounters |-> m, writers |-> Generators, maxAdds |-> GenAdds])
        /\ usr = [g \in Generators |-> StartingGenerator]
        /\ opts = NoOptions

\* GetCounterLabel and GetCounterValue find counterID: the scan meets a slot
\* that is Allocated to it before it meets a NotUsed slot.  The slots do not
\* change under the scan of the goroutine that holds the counter open.
LookupFinds(id) ==
    \E s \in Slots :
        /\ idStatus[s] = AllocatedIDStatus(id)
        /\ \A r \in 0 .. (s - 1) : extractStatus(idStatus[r]) # counterStatusNotUsed

\* cnt, err := w.AddCounterWithInitialValue(fmt.Sprintf("%s%d", counterPrefix, i), int64(i))
GenAdd(g) ==
    /\ usr[g].pc = "add"
    /\ AddCall(g, LabelFor(usr[g].done), usr[g].done)
    /\ usr' = [usr EXCEPT ![g].pc = "added", ![g].id = NextId(idSequence)]

\* The add returned: on an error cnt is nil and the goroutine ends in cnt.ID();
\* else r.GetCounterLabel(cnt.ID()) and r.GetCounterValue(cnt.ID()).
GenLookup(g) ==
    /\ usr[g].pc = "added"
    /\ thr[g].pc = "idle"
    /\ usr' = IF hist[usr[g].id].result = "ok"
              THEN [usr EXCEPT ![g].pc = "close", ![g].seen = LookupFinds(usr[g].id)]
              ELSE [usr EXCEPT ![g].pc = "failed"]
    /\ UNCHANGED <<lifeVars, log, opts, cfg, sets, rd, idStatus, labelLen, labelMem, values,
                   idSequence, counters, thr, emitted, rdResult, issued, hist>>

\* cnt.Close()
GenClose(g) ==
    /\ usr[g].pc = "close"
    /\ counters[usr[g].id].closed = 0
    /\ CloseStart(g, usr[g].id)

\* Close returned: the two lookups that are expected to fail, and the next i.
GenAfter(g) ==
    /\ usr[g].pc = "close"
    /\ thr[g].pc = "idle"
    /\ counters[usr[g].id].closed = 1
    /\ usr' = [usr EXCEPT ![g].pc = "add", ![g].done = @ + 1,
                          ![g].gone = ~LookupFinds(usr[g].id)]
    /\ UNCHANGED <<lifeVars, log, opts, cfg, sets, rd, idStatus, labelLen, labelMem, values,
                   idSequence, counters, thr, emitted, rdResult, issued, hist>>

NextGen ==
    \/ \E g \in Generators : GenAdd(g)
    \/ \E g \in Generators : AddLoad(g)
    \/ \E g \in Generators : AddCAS(g)
    \/ \E g \in Generators : AddPutLen(g)
    \/ \E g \in Generators : AddPutBytes(g)
    \/ \E g \in Generators : AddPutValue(g)
    \/ \E g \in Generators : AddPublish(g)
    \/ \E g \in Generators : GenLookup(g)
    \/ \E g \in Generators : GenClose(g)
    \/ \E g \in Generators : FreeLoad(g)
    \/ \E g \in Generators : FreeCAS(g)
    \/ \E g \in Generators : GenAfter(g)

SpecGen == InitGen /\ [][NextGen]_vars

\* C25: two goroutines that each repeat add, lookup, close on one Writer with
\* room for at least two counters never get "there is no free space to add
\* new counter" from an add.
AddCloseNeverOutOfSlots ==
    /\ \A i \in DOMAIN hist : hist[i].result # "OutOfSlots"
    /\ \A g \in Generators : usr[g].pc # "failed"

\* Both goroutines went round twice, and an add found slot 0 taken and went
\* on to a later slot.
AddCloseNeverOutOfSlotsWitness ==
    /\ \A g \in Generators : usr[g].done = 2
    /\ \A i \in 0 .. (GenAdds - 1) : i \in DOMAIN hist /\ hist[i].result = "ok"
    /\ \E i \in DOMAIN hist : 0 \notin hist[i].slots

-----------------------------------------------------------------------------
(* Iterations whose consumer stops them.                                   *)

\* The slots of the file, the adds of a run and the largest statics map.
StopCounters == 3
StopAdds == 3
StopStatics == 2

\* What the statics map holds under a label: "" for the labels of odd
\* length, "xyz" for the others.
StopValueFor(label) == IF Len(label) % 2 = 1 THEN <<>> ELSE <<120, 121, 122>>
StopStaticsMaps ==
    {[l \in d |-> StopValueFor(l)] :
        d \in {x \in SUBSET {<<65>>, <<65, 66>>} : Cardinality(x) <= StopStatics}}

\* The path is free; one caller is about to construct the writer.
InitStop ==
    \E st \in StopStaticsMaps :
        /\ cfg = [maxCounters |-> StopCounters, writers |-> {1}, maxAdds |-> StopAdds,
                  statics |-> st]
        /\ idStatus = [s \in 0 .. (StopCounters - 1) |-> 0]
        /\ labelLen = [s \in 0 .. (StopCounters - 1) |-> 0]
        /\ labelMem = [s \in 0 .. (StopCounters - 1) |-> <<>>]
        /\ values = [s \in 0 .. (StopCounters - 1) |-> 0]
        /\ idSequence = InitialIdSequence
        /\ counters = NoCounters
        /\ thr = [t \in {1} |-> IdleThread]
        /\ rd = IdleReader
        /\ emitted = <<>>
        /\ rdResult = NoResult
        /\ issued = <<>>
        /\ hist = NoCounters
        /\ sets = 0
        /\ fileOnDisk = "absent"
        /\ header = [version |-> 0, staticsLength |-> 0, metadataLength |-> 0,
                     valuesLength |-> 0, pid |-> 0, startTime |-> 0]
        /\ statics = [o \in 0 .. (StaticsLength(st) - 1) |-> 0]
        /\ ctor = [p \in {1} |-> IdleCtor]
        /\ opener = IdleOpener
        /\ wclose = OpenWriter
        /\ usr = NoUsers
        /\ log = <<>>
        /\ opts = NoOptions

\* The reader the program opened on the file.
ReaderOpened == opener.pc = "done" /\ opener.result = "ok"

\* The goroutine adds counters and closes them.
AddCloseStep ==
    \/ \E t \in DOMAIN thr :
            AddStart(t, LabelFor(NextId(idSequence)), InitialValueFor(NextId(idSequence)))
    \/ \E t \in DOMAIN thr : AddLoad(t)
    \/ \E t \in DOMAIN thr : AddCAS(t)
    \/ \E t \in DOMAIN thr : AddPutLen(t)
    \/ \E t \in DOMAIN thr : AddPutBytes(t)
    \/ \E t \in DOMAIN thr : AddPutValue(t)
    \/ \E t \in DOMAIN thr : AddPublish(t)
    \/ \E t \in DOMAIN thr, id \in DOMAIN counters : CloseStart(t, id)
    \/ \E t \in DOMAIN thr : FreeLoad(t)
    \/ \E t \in DOMAIN thr : FreeCAS(t)

\* The program constructs the writer, opens the reader, iterates over the
\* statics, and then adds and closes counters in one goroutine; the
\* iterations over the counters run between the steps of that goroutine.
NextStop ==
    \/ CtorStep
    \/ (WriterConstructed /\ (OpenerMap \/ OpenerLenS \/ OpenerLenM \/ OpenerLenV
                              \/ OpenerVersion))
    \/ (ReaderOpened /\ rd.pc = "idle" /\ AddCloseStep)
    \/ (idSequence = InitialIdSequence /\ rd.pc = "idle"
            /\ \E stop \in 0 .. StopStatics : ForEachStaticStop(stop))
    \/ (ReaderOpened /\ \E stop \in 0 .. StopCounters : ForEachCounterStop(stop))
    \/ FeLoad \/ FeLen \/ FeBytes \/ FeVal \/ FeCheck
    \/ RdDrop

SpecStop == InitStop /\ [][NextStop]_vars

\* The first k elements of s; all of s when k is 0 or s is shorter.
Prefix(s, k) == IF k = 0 \/ k >= Len(s) THEN s ELSE SubSeq(s, 1, k)

\* What ForEachCounter passes to a consumer that always returns true, on the
\* file as it is now, from slot s on.
RECURSIVE FullIterationFrom(_)
FullIterationFrom(s) ==
    IF s \notin Slots \/ StopsScan(extractStatus(idStatus[s])) THEN <<>>
    ELSE IF extractStatus(idStatus[s]) = counterStatusAllocated
         THEN <<[id |-> extractID(idStatus[s]), value |-> values[s],
                 label |-> [k \in 1 .. labelLen[s] |-> ByteAt(labelMem[s], k)],
                 at |-> SlotNow(s * metadataRecordLength, s * valuesCounterLength)]>>
              \o FullIterationFrom(s + 1)
         ELSE FullIterationFrom(s + 1)

\* C26: a consumer that returns false is not called again in that call; what
\* ForEachCounter and ForEachStatic delivered is the prefix of the full
\* iteration that ends with the record on which the consumer returned false.
EarlyStop ==
    /\ (rd.op = "forEach" /\ rd.stop > 0) => Len(emitted) <= rd.stop
    /\ (rd.op = "forEach" /\ rd.pc = "done")
         => emitted = Prefix(FullIterationFrom(0), rd.stop)
    /\ (opener.read.op = "forEachStop" /\ opener.read.kind = "ok")
         => opener.read.records = Prefix(ForEachStaticRecords(statics), opener.read.stop)

\* Both iterations were stopped on their first record with more to come: two
\* counters are Allocated behind a freed slot, the statics hold two records.
EarlyStopWitness ==
    /\ rd.op = "forEach" /\ rd.pc = "done" /\ rd.stop = 1
    /\ Len(emitted) = 1
    /\ Len(FullIterationFrom(0)) = 2
    /\ extractStatus(idStatus[0]) = counterStatusFreed
    /\ opener.read.op = "forEachStop" /\ opener.read.stop = 1
    /\ Len(opener.read.records) = 1
    /\ Len(ForEachStaticRecords(statics)) >= 2

\* C27: the statics length NewWriterForFile computes and writes to the header
\* is a multiple of 128 and covers the 4-byte count and the records, for
\* every statics map, the empty one included.
StaticsLengthAligned ==
    header.staticsLength # 0 =>
        /\ header.staticsLength % (sizeOfCacheLine * 2) = 0
        /\ header.staticsLength >= staticsRecordsOffset
                + RecordsLength(cfg.statics, SortedLabels(DOMAIN cfg.statics))

\* The file offsets of the 32-bit integers of the file: the header's version
\* and lengths, the statics count, the length fields of the statics records
\* and the label lengths of the slots.
Int32FileOffsets ==
    {headerCountersVersionOffset, headerStaticsLengthOffset, headerMetadataLengthOffset,
     headerValuesLengthOffset}
    \cup {StaticsFileOffset + staticsNumberOfStaticsOffset}
    \cup UNION {{StaticsFileOffset + o + staticsLabelLengthOffset,
                 StaticsFileOffset + o + staticsValueLengthOffset} :
                o \in StaticsRecordOffsets(cfg.statics, SortedLabels(DOMAIN cfg.statics),
                                           staticsRecordsOffset)}
    \cup {LabelLengthFileOffset(s) : s \in Slots}

\* The file offsets of the 64-bit integers: pid, start time, the id-status
\* words and the values.
Int64FileOffsets ==
    {headerPidOffsert, headerStartTimeOffsert}
    \cup {IdStatusFileOffset(s) : s \in Slots}
    \cup {ValueFileOffset(s) : s \in Slots}

\* C28: in the file of every writer, every 64-bit integer lies at a file
\* offset that is a multiple of 8 and every 32-bit integer at a multiple of 4.
NaturallyAligned ==
    WriterConstructed =>
        /\ \A o \in Int64FileOffsets : o % sizeOfInt64 = 0
        /\ \A o \in Int32FileOffsets : o % sizeOfInt32 = 0

-----------------------------------------------------------------------------
(* cli.Options: the command line of the programs.  Strings are sequences   *)
(* of character codes.                                                     *)

\* '-', '=', ' ', '<', '>'
Dash == 45
EqualsSign == 61
Blank == 32
LessSign == 60
GreaterSign == 62

paramExpectedState == 0
argumentExpectedState == 1

\* A nil optionInfo or *Argumented.
NoOption == [kind |-> "none", longName |-> <<>>, shortName |-> 0,
             argumentName |-> <<>>, descriptiveName |-> <<>>, required |-> FALSE]

\* The *string a key of opts.arguments maps to: nil, or &s.
NilArgument == [set |-> FALSE, text |-> <<>>]
ArgumentOf(s) == [set |-> TRUE, text |-> s]

\* make(map[string]*string), and m[k] = v.
NoArguments == [d \in {} |-> NilArgument]
PutArgument(m, k, v) == [d \in DOMAIN m \cup {k} |-> IF d = k THEN v ELSE m[d]]

\* err == nil, and the errors of Parse; names holds what the message names.
NoError == [kind |-> "none", names |-> <<>>]
ErrorOf(kind, names) == [kind |-> kind, names |-> names]

\* NewFlag: "-x", "--xx" or "-x  or  --xx".
NewFlag(longName, shortName) ==
    LET short == IF shortName # 0 THEN <<Dash, shortName>> ELSE <<>>
        long == IF longName # <<>>
                THEN (IF short # <<>> THEN <<Blank, Blank, 111, 114, Blank, Blank>> ELSE <<>>)
                     \o <<Dash, Dash>> \o longName
                ELSE <<>>
    IN [kind |-> "flag", longName |-> longName, shortName |-> shortName,
        argumentName |-> <<>>, descriptiveName |-> short \o long, required |-> FALSE]

\* NewArgumented: "-a <v>", "--nn <v>" or "-a <v>  or  --nn <v>".
NewArgumented(longName, shortName, argumentName) ==
    LET arg == <<Blank, LessSign>> \o argumentName \o <<GreaterSign>>
        short == IF shortName # 0 THEN <<Dash, shortName>> \o arg ELSE <<>>
        long == IF longName # <<>>
                THEN (IF short # <<>> THEN <<Blank, Blank, 111, 114, Blank, Blank>> ELSE <<>>)
                     \o <<Dash, Dash>> \o longName \o arg
                ELSE <<>>
    IN [kind |-> "argumented", longName |-> longName, shortName |-> shortName,
        argumentName |-> argumentName, descriptiveName |-> short \o long,
        required |-> FALSE]

\* opts.shortOptions[c] and opts.longOptions[name], as registerOption fills them.
ShortOption(reg, c) ==
    LET hits == {k \in 1 .. Len(reg) : reg[k].shortName = c /\ c # 0} IN
    IF hits = {} THEN NoOption ELSE reg[CHOOSE k \in hits : TRUE]
LongOption(reg, name) ==
    LET hits == {k \in 1 .. Len(reg) : reg[k].longName = name /\ name # <<>>} IN
    IF hits = {} THEN NoOption ELSE reg[CHOOSE k \in hits : TRUE]

\* strings.TrimSpace
RECURSIVE TrimLeft(_)
TrimLeft(s) == IF s # <<>> /\ Head(s) = Blank THEN TrimLeft(Tail(s)) ELSE s
RECURSIVE TrimRight(_)
TrimRight(s) ==
    IF s # <<>> /\ s[Len(s)] = Blank THEN TrimRight(SubSeq(s, 1, Len(s) - 1)) ELSE s
TrimSpace(s) == TrimRight(TrimLeft(s))

\* unicode.IsLetter(c) || unicode.IsDigit(c), on ASCII
IsLetterOrDigit(c) ==
    \/ 48 <= c /\ c <= 57
    \/ 65 <= c /\ c <= 90
    \/ 97 <= c /\ c <= 122

\* parseShort from rs[i] on (i counts from 1): o is the Argumented met so
\* far, argument what was collected behind it.
RECURSIVE parseShortFrom(_, _, _, _, _, _)
parseShortFrom(reg, rs, i, o, argument, arguments) ==
    IF i > Len(rs)
    THEN IF o.kind = "none"
         THEN [o |-> NoOption, arguments |-> arguments, err |-> NoError]
         ELSE IF Len(argument) > 0
              THEN [o |-> NoOption,
                    arguments |-> PutArgument(arguments, o.descriptiveName,
                                              ArgumentOf(argument)),
                    err |-> NoError]
              ELSE [o |-> o, arguments |-> arguments, err |-> NoError]
    ELSE IF o.kind # "none"
         THEN parseShortFrom(reg, rs, i + 1, o, Append(argument, rs[i]), arguments)
         ELSE LET nextOption == ShortOption(reg, rs[i]) IN
              IF nextOption.kind = "none"
              THEN [o |-> NoOption, arguments |-> arguments,
                    err |-> ErrorOf("UnknownOption", <<<<Dash, rs[i]>>>>)]
              ELSE IF nextOption.kind = "argumented"
                   THEN parseShortFrom(reg, rs, i + 1, nextOption, argument, arguments)
                   ELSE IF nextOption.descriptiveName \in DOMAIN arguments
                        THEN [o |-> NoOption, arguments |-> arguments,
                              err |-> ErrorOf("Duplicated",
                                              <<nextOption.descriptiveName>>)]
                        ELSE parseShortFrom(reg, rs, i + 1, NoOption, argument,
                                PutArgument(arguments, nextOption.descriptiveName,
                                            NilArgument))

parseShort(reg, arguments, rs) == parseShortFrom(reg, rs, 2, NoOption, <<>>, arguments)

\* The loop of parseLong over rs[i] and what follows: the name, the argument
\* behind '=' and the character that may not be in a long name (0: none).
RECURSIVE parseLongFrom(_, _, _, _)
parseLongFrom(rs, i, name, argument) ==
    IF i > Len(rs) THEN [name |-> name, argument |-> argument, wrong |-> 0]
    ELSE IF argument.set
         THEN parseLongFrom(rs, i + 1, name, ArgumentOf(Append(argument.text, rs[i])))
         ELSE IF rs[i] = EqualsSign
              THEN parseLongFrom(rs, i + 1, name, ArgumentOf(<<>>))
              ELSE IF IsLetterOrDigit(rs[i])
                   THEN parseLongFrom(rs, i + 1, Append(name, rs[i]), argument)
                   ELSE [name |-> name, argument |-> argument, wrong |-> rs[i]]

parseLong(reg, arguments, rs) ==
    LET scan == parseLongFrom(rs, 3, <<>>, NilArgument)
        oi == LongOption(reg, scan.name)
        marked == PutArgument(arguments, oi.descriptiveName, NilArgument)
    IN IF scan.wrong # 0
       THEN [o |-> NoOption, arguments |-> arguments,
             err |-> ErrorOf("WrongCharacter", <<rs>>)]
       ELSE IF oi.kind = "none"
       THEN [o |-> NoOption, arguments |-> arguments,
             err |-> ErrorOf("UnknownOption", <<<<Dash, Dash>> \o scan.name>>)]
       ELSE IF oi.descriptiveName \in DOMAIN arguments
       THEN [o |-> NoOption, arguments |-> arguments,
             err |-> ErrorOf("Duplicated", <<oi.descriptiveName>>)]
       ELSE IF oi.kind # "argumented"
       THEN IF scan.argument.set
            THEN [o |-> NoOption, arguments |-> marked,
                  err |-> ErrorOf("FlagWithArgument", <<oi.descriptiveName>>)]
            ELSE [o |-> NoOption, arguments |-> marked, err |-> NoError]
       ELSE IF scan.argument.set
       THEN IF Len(scan.argument.text) = 0
            THEN [o |-> NoOption, arguments |-> marked,
                  err |-> ErrorOf("FlagWithArgument", <<oi.descriptiveName>>)]
            ELSE [o |-> NoOption,
                  arguments |-> PutArgument(marked, oi.descriptiveName,
                                            ArgumentOf(scan.argument.text)),
                  err |-> NoError]
       ELSE [o |-> oi, arguments |-> marked, err |-> NoError]

\* if len(opts.arguments) > 0 { opts.arguments = make(map[string]*string) }
KeepArguments(arguments) == arguments
ResetArguments(arguments) ==
    IF Cardinality(DOMAIN arguments) > 0 THEN NoArguments ELSE arguments

\* The loop of Parse from args[currentIndex] on (counted from 1).
RECURSIVE parseLoop(_, _, _, _)
parseLoop(reg, args, currentIndex, st) ==
    IF currentIndex > Len(args) THEN [st EXCEPT !.currentIndex = currentIndex]
    ELSE LET s == TrimSpace(args[currentIndex]) IN
    IF s = <<>> THEN parseLoop(reg, args, currentIndex + 1, st)
    ELSE IF s[1] = Dash
    THEN IF st.state = paramExpectedState
         THEN IF Len(s) = 1
              THEN [st EXCEPT !.err = ErrorOf("DashAlone", <<>>)]
              ELSE IF s[2] = Dash /\ Len(s) = 2
              THEN [st EXCEPT !.currentIndex = currentIndex + 1]
              ELSE LET r == IF s[2] = Dash THEN parseLong(reg, st.arguments, s)
                                           ELSE parseShort(reg, st.arguments, s)
                   IN IF r.err.kind # "none"
                      THEN [st EXCEPT !.err = r.err, !.arguments = r.arguments]
                      ELSE parseLoop(reg, args, currentIndex + 1,
                              [st EXCEPT !.arguments = r.arguments,
                                         !.currentOptionToArgument = r.o,
                                         !.state = IF r.o.kind # "none"
                                                   THEN argumentExpectedState ELSE @])
         ELSE [st EXCEPT !.err = ErrorOf("NoArgumentFound",
                                  <<st.currentOptionToArgument.descriptiveName>>)]
    ELSE IF st.state = paramExpectedState
         THEN parseLoop(reg, args, currentIndex + 1,
                        [st EXCEPT !.parameters = Append(@, s)])
         ELSE parseLoop(reg, args, currentIndex + 1,
                        [st EXCEPT !.arguments =
                                      PutArgument(@, st.currentOptionToArgument.descriptiveName,
                                                  ArgumentOf(s)),
                                   !.currentOptionToArgument = NoOption,
                                   !.state = paramExpectedState])

\* Options.Parse(args) on the options reg with opts.arguments = before: the
\* parameters and the error it returns, and opts.arguments as it leaves it.
ParseOutcome(reg, before, args) ==
    LET st == parseLoop(reg, args, 1,
                        [state |-> paramExpectedState, currentOptionToArgument |-> NoOption,
                         arguments |-> ResetArguments(before), parameters |-> <<>>,
                         err |-> NoError, currentIndex |-> 1])
        missed == SelectSeq(reg, LAMBDA o :
                        o.required /\ o.descriptiveName \notin DOMAIN st.arguments)
    IN IF st.err.kind # "none"
       THEN [parameters |-> <<>>, err |-> st.err, arguments |-> st.arguments]
       ELSE IF st.state = argumentExpectedState
       THEN [parameters |-> <<>>,
             err |-> ErrorOf("NoRequiredArg", <<st.currentOptionToArgument.longName>>),
             arguments |-> st.arguments]
       ELSE IF Len(missed) > 0
       THEN [parameters |-> <<>>,
             err |-> ErrorOf("RequiredMissed",
                             [k \in 1 .. Len(missed) |-> missed[k].descriptiveName]),
             arguments |-> st.arguments]
       ELSE [parameters |-> st.parameters \o SubSeq(args, st.currentIndex, Len(args)),
             err |-> NoError, arguments |-> st.arguments]

\* The longest argument list of a Parse call, and the arguments it is made
\* of: " p", "-x", "-a", "--nn", "--nn=v", "--".
MaxArgs == 3
CliWords == {<<Blank, 112>>, <<Dash, 120>>, <<Dash, 97>>, <<Dash, Dash, 110, 110>>,
             <<Dash, Dash, 110, 110, EqualsSign, 118>>, <<Dash, Dash>>}
ArgLists == UNION {[1 .. n -> CliWords] : n \in 0 .. MaxArgs}

\* opts := NewOptions(); opts.NewShortFlag('x'); opts.NewShortArgumented('a', "v");
\* opts.NewLongArgumented("nn", "v")
NewOptions ==
    [registered |-> <<NewFlag(<<>>, 120), NewArgumented(<<>>, 97, <<118>>),
                      NewArgumented(<<110, 110>>, 0, <<118>>)>>,
     arguments |-> NoArguments, parsed |-> FALSE, args |-> <<>>, parameters |-> <<>>,
     err |-> NoError, again |-> FALSE, returned |-> FALSE]

InitCli ==
    /\ InitCounters([maxCounters |-> 1, writers |-> {}, maxAdds |-> 0])
    /\ usr = NoUsers
    /\ opts = NewOptions

\* Option.Require on the k-th option; the caller is done with what the last
\* Parse returned, which judged the options as they were.
Require(k) ==
    /\ ~opts.registered[k].required
    /\ opts' = [opts EXCEPT !.registered[k].required = TRUE, !.returned = FALSE,
                            !.args = <<>>, !.parameters = <<>>, !.err = NoError,
                            !.again = FALSE]
    /\ UNCHANGED <<lifeVars, usr, log, cfg, sets, rd, idStatus, labelLen, labelMem, values,
                   idSequence, counters, thr, emitted, rdResult, issued, hist>>

\* opts.Parse(args); again tells that opts.arguments held the options of an
\* earlier call when this one began, returned that the call is the last thing
\* done to the Options.
Parse(args) ==
    /\ LET r == ParseOutcome(opts.registered, opts.arguments, args) IN
       opts' = [opts EXCEPT !.parsed = TRUE, !.arguments = r.arguments, !.args = args,
                            !.parameters = r.parameters, !.err = r.err,
                            !.again = (DOMAIN opts.arguments # {}), !.returned = TRUE]
    /\ UNCHANGED <<lifeVars, usr, log, cfg, sets, rd, idStatus, labelLen, labelMem, values,
                   idSequence, counters, thr, emitted, rdResult, issued, hist>>

NextCli ==
    \/ \E k \in 1 .. Len(opts.registered) : Require(k)
    \/ \E args \in ArgLists : Parse(args)

SpecCli == InitCli /\ [][NextCli]_vars

\* The k-th argument of the last Parse call, trimmed.
Word(k) == TrimSpace(opts.args[k])

\* The position of the first "--" of the last call, the end of its options;
\* behind the arguments when there is none.
EndOfOptions ==
    LET ends == {k \in 1 .. Len(opts.args) : Word(k) = <<Dash, Dash>>} IN
    IF ends = {} THEN Len(opts.args) + 1 ELSE CHOOSE k \in ends : \A j \in ends : k <= j

\* The registered option at position i of the word w written with one dash,
\* if the characters before it are flags.
ShortAt(w, i) ==
    IF \A j \in 2 .. (i - 1) : ShortOption(opts.registered, w[j]).kind = "flag"
    THEN ShortOption(opts.registered, w[i]) ELSE NoOption

\* The long name in a word written with two dashes: up to the first '='.
LongNameIn(w) ==
    LET eqs == {i \in 3 .. Len(w) : w[i] = EqualsSign}
        end == IF eqs = {} THEN Len(w) + 1 ELSE CHOOSE i \in eqs : \A j \in eqs : i <= j
    IN SubSeq(w, 3, end - 1)

\* The options a word names.
NamedBy(w) ==
    IF Len(w) >= 3 /\ w[1] = Dash /\ w[2] = Dash
    THEN {o \in {LongOption(opts.registered, LongNameIn(w))} : o.kind # "none"}
    ELSE IF Len(w) >= 2 /\ w[1] = Dash
         THEN {o \in {ShortAt(w, i) : i \in 2 .. Len(w)} : o.kind # "none"}
         ELSE {}

\* The options that occur in the arguments of the last call.
Occurred == UNION {NamedBy(Word(k)) : k \in 1 .. (EndOfOptions - 1)}

\* The descriptive names of the required options that did not occur, in the
\* order of their registration.
MissingRequired ==
    LET missed == SelectSeq(opts.registered, LAMBDA o : o.required /\ o \notin Occurred)
    IN [k \in 1 .. Len(missed) |-> missed[k].descriptiveName]

\* The word names an option that takes an argument and brings none along.
WantsArgument(w) ==
    IF Len(w) >= 3 /\ w[1] = Dash /\ w[2] = Dash
    THEN /\ LongOption(opts.registered, LongNameIn(w)).kind = "argumented"
         /\ \A i \in 3 .. Len(w) : w[i] # EqualsSign
    ELSE /\ Len(w) >= 2 /\ w[1] = Dash
         /\ ShortAt(w, Len(w)).kind = "argumented"

\* Behind the k-th argument comes another option, "--", or nothing but blanks.
NoArgumentBehind(k) ==
    LET later == {j \in (k + 1) .. Len(opts.args) : Word(j) # <<>>} IN
    \/ later = {}
    \/ Word(CHOOSE j \in later : \A i \in later : j <= i)[1] = Dash

\* The last call judged its own arguments only: it returned what Parse
\* returns on Options that were never parsed before.
JudgesLatestCall ==
    LET fresh == ParseOutcome(opts.registered, NoArguments, opts.args) IN
    /\ opts.err = fresh.err
    /\ opts.parameters = fresh.parameters
    /\ opts.arguments = fresh.arguments

\* An option that wants an argument and gets none is an error.
MissingArgumentIsError ==
    \A k \in 1 .. (EndOfOptions - 1) :
        (WantsArgument(Word(k)) /\ NoArgumentBehind(k)) => opts.err.kind # "none"

\* C29 as stated: whenever a required option did not occur in the arguments
\* of the call, Parse fails with the error that names each of them.
ParseNamesMissingAlways ==
    (opts.parsed /\ opts.returned) =>
        /\ Len(MissingRequired) > 0
                => opts.err = ErrorOf("RequiredMissed", MissingRequired)
        /\ Len(MissingRequired) = 0 => opts.err.kind # "RequiredMissed"
        /\ JudgesLatestCall
        /\ MissingArgumentIsError

\* C29: when Parse meets no other error in the arguments, it fails with the
\* error naming each required option that did not occur in the arguments of
\* that call, and it never fails for that reason when all of them occurred; a
\* repeated Parse judges the arguments of the latest call only; an option
\* that takes an argument and is followed by an option or by the end is an
\* error.
ParseNamesMissing ==
    (opts.parsed /\ opts.returned) =>
        /\ opts.err.kind = "RequiredMissed"
                => (Len(MissingRequired) > 0 /\ opts.err.names = MissingRequired)
        /\ opts.err.kind = "none" => Len(MissingRequired) = 0
        /\ JudgesLatestCall
        /\ MissingArgumentIsError

\* A repeated Parse on Options that held the options of an earlier call: -x
\* and another option are required, the latest arguments hold neither, and
\* the error names both.
ParseNamesMissingWitness ==
    /\ opts.parsed /\ opts.returned
    /\ opts.again
    /\ DOMAIN opts.arguments = {}
    /\ opts.err.kind = "RequiredMissed"
    /\ Len(opts.err.names) = 2
    /\ opts.err.names[1] = <<Dash, 120>>
    /\ Len(opts.args) = MaxArgs

-----------------------------------------------------------------------------
(* Encoder.AddCounter and Encoder.FreeCounter called by two goroutines,    *)
(* FreeCounter for any id and more than once.                              *)

FreeSlots == 2
FreeAdds == 2
MaxFreeCalls == 2

InitFree ==
    InitWith([maxCounters |-> FreeSlots, writers |-> Writers, maxAdds |-> FreeAdds,
              maxFrees |-> MaxFreeCalls])

NextFree ==
    \/ \E t \in DOMAIN thr :
            AddStart(t, LabelFor(NextId(idSequence)), InitialValueFor(NextId(idSequence)))
    \/ \E t \in DOMAIN thr : AddLoad(t)
    \/ \E t \in DOMAIN thr : AddCAS(t)
    \/ \E t \in DOMAIN thr : AddPutLen(t)
    \/ \E t \in DOMAIN thr : AddPutBytes(t)
    \/ \E t \in DOMAIN thr : AddPutValue(t)
    \/ \E t \in DOMAIN thr : AddPublish(t)
    \/ \E t \in DOMAIN thr, id \in DOMAIN hist : FreeStart(t, id)
    \/ \E t \in DOMAIN thr : FreeLoad(t)
    \/ \E t \in DOMAIN thr : FreeCAS(t)

SpecFree == InitFree /\ [][NextFree]_vars

\* C30: a step of FreeCounter(id) changes no id-status word but that of a
\* slot whose word carries id at that moment, and that one to Freed.
FreeTouchesOwnIdOnly ==
    [][\A t \in DOMAIN thr :
          (thr[t].pc \in {"free_load", "free_cas"} /\ thr'[t] # thr[t]) =>
              \A s \in Slots :
                  idStatus'[s] # idStatus[s] =>
                      /\ extractID(idStatus[s]) = thr[t].id
                      /\ idStatus'[s] = FreedIDStatus(thr[t].id)]_vars

\* A free of an id lost its CAS, and the slot it read is now Allocated to an
\* id that was issued later.
FreeTouchesOwnIdOnlyWitness ==
    \E id \in DOMAIN hist, s \in Slots :
        /\ hist[id].lostCAS
        /\ hist[id].slots = {s}
        /\ extractStatus(idStatus[s]) = counterStatusAllocated
        /\ extractID(idStatus[s]) > id

-----------------------------------------------------------------------------
\* C31: while a slot is AllocationInProgress exactly one AddCounter call is
\* between its CAS and its publishing store on that slot, the slot's word
\* carries the id of that call, and a step that changes the slot's id-status
\* word, label length, label bytes or paired value is a step of that call;
\* the word changes to Allocated under the same id only.
AllocationExclusive ==
    [][\A s \in Slots :
          extractStatus(idStatus[s]) = counterStatusAllocationInProgress =>
              LET owners == {t \in DOMAIN thr :
                                /\ thr[t].pc \in {"add_len", "add_bytes", "add_val", "add_pub"}
                                /\ MetaSlot(thr[t].off) = s} IN
              /\ Cardinality(owners) = 1
              /\ \A t \in owners :
                    /\ thr[t].id = extractID(idStatus[s])
                    /\ ValueSlot(thr[t].voff) = s
                    /\ (\/ idStatus'[s] # idStatus[s]
                        \/ labelLen'[s] # labelLen[s]
                        \/ labelMem'[s] # labelMem[s]
                        \/ values'[s] # values[s]) => thr'[t] # thr[t]
                    /\ idStatus'[s] # idStatus[s] =>
                          idStatus'[s] = AllocatedIDStatus(thr[t].id)]_vars

\* A slot is AllocationInProgress, its owner has written the label length,
\* and another AddCounter call that read the slot's word before the owner's
\* CAS is about to try its own CAS on the slot.
AllocationExclusiveWitness ==
    \E s \in Slots, t, u \in DOMAIN thr :
        /\ t # u
        /\ extractStatus(idStatus[s]) = counterStatusAllocationInProgress
        /\ thr[t].pc \in {"add_bytes", "add_val"}
        /\ MetaSlot(thr[t].off) = s
        /\ thr[u].pc = "add_cas"
        /\ MetaSlot(thr[u].off) = s
        /\ thr[u].w # idStatus[s]

-----------------------------------------------------------------------------
\* C32: the value offset of every Counter handle is 128 times the index of
\* the metadata slot its AddCounter call acquired; the value paired with an
\* Allocated slot is one that was written for the slot's current id; and no
\* two handles that are not closed have the same value offset.
ValuePairing ==
    /\ \A id \in DOMAIN counters :
          hist[id].slots = {counters[id].valueOffset \div 128}
          /\ counters[id].valueOffset % 128 = 0
    /\ \A s \in Slots :
          extractStatus(idStatus[s]) = counterStatusAllocated =>
              values[s] \in hist[extractID(idStatus[s])].held
    /\ \A i, j \in OpenIds :
          i # j => counters[i].valueOffset # counters[j].valueOffset

\* Two handles are open on the slots 0 and 1, every slot is Allocated, the
\* counter of slot 1 was set after its publication, and the counter of
\* slot 0 is the second one that slot has held.
ValuePairingWitness ==
    \E i, j \in OpenIds :
        /\ counters[i].valueOffset = 0
        /\ counters[j].valueOffset = 128
        /\ extractID(idStatus[0]) = i
        /\ extractID(idStatus[1]) = j
        /\ \E k \in DOMAIN counters : k < i /\ counters[k].valueOffset = 0
        /\ \A s \in Slots : extractStatus(idStatus[s]) = counterStatusAllocated
        /\ hist[j].upd

-----------------------------------------------------------------------------
(* The layout of the file: NewWriterForFile for a statics map and a number *)
(* of counters, and NewReaderForFile on the file it made.                  *)

LayoutMaxCounters == 2

\* The path is free and one caller constructs the writer.
InitLayout ==
    \E m \in 0 .. LayoutMaxCounters, st \in StaticsMaps :
        /\ cfg = [maxCounters |-> m, writers |-> {1}, maxAdds |-> LifeAdds, statics |-> st]
        /\ idStatus = [s \in 0 .. (m - 1) |-> 0]
        /\ labelLen = [s \in 0 .. (m - 1) |-> 0]
        /\ labelMem = [s \in 0 .. (m - 1) |-> <<>>]
        /\ values = [s \in 0 .. (m - 1) |-> 0]
        /\ idSequence = InitialIdSequence
        /\ counters = NoCounters
        /\ thr = [t \in {1} |-> IdleThread]
        /\ rd = IdleReader
        /\ emitted = <<>>
        /\ rdResult = NoResult
        /\ issued = <<>>
        /\ hist = NoCounters
        /\ sets = 0
        /\ fileOnDisk = "absent"
        /\ header = [version |-> 0, staticsLength |-> 0, metadataLength |-> 0,
                     valuesLength |-> 0, pid |-> 0, startTime |-> 0]
        /\ statics = [o \in 0 .. (StaticsLength(st) - 1) |-> 0]
        /\ ctor = [p \in {1} |-> IdleCtor]
        /\ opener = IdleOpener
        /\ wclose = OpenWriter
        /\ usr = NoUsers
        /\ log = <<>>
        /\ opts = NoOptions

\* The reader opens the file after NewWriterForFile returned.
NextLayout ==
    \/ CtorStep
    \/ (WriterConstructed /\ (OpenerMap \/ OpenerLenS \/ OpenerLenM \/ OpenerLenV
                              \/ OpenerVersion \/ OpenerDrop))

SpecLayout == InitLayout /\ [][NextLayout]_vars

\* NewEncoder: the sections the writer slices out of the mapped file.
EncoderLayout ==
    [statics |-> [offset |-> StaticsFileOffset, length |-> StaticsLength(cfg.statics)],
     metadata |-> [offset |-> MetadataFileOffset,
                   length |-> MetadataLength(cfg.maxCounters)],
     values |-> [offset |-> ValuesFileOffset, length |-> ValuesLength(cfg.maxCounters)]]

\* NewDecoder: the sections the reader slices out of the mapped file, by the
\* three lengths it read from the header.
DecoderLayout ==
    [statics |-> [offset |-> HeaderLength, length |-> opener.staticsLength],
     metadata |-> [offset |-> HeaderLength + opener.staticsLength,
                   length |-> opener.metadataLength],
     values |-> [offset |-> HeaderLength + (opener.staticsLength + opener.metadataLength),
                 length |-> opener.valuesLength]]

\* C33: the sections of a reader that opened the file of a constructed
\* writer are the writer's sections: statics, metadata and values begin and
\* end at the same offsets, they follow the header and each other without a
\* gap, the metadata are 512 bytes and the values 128 bytes a counter, and
\* the file's size is the sum of the four sections rounded up to the page.
LayoutAgreement ==
    (opener.pc = "done" /\ opener.result = "ok") =>
        /\ DecoderLayout = EncoderLayout
        /\ DecoderLayout.statics.offset = 128
        /\ DecoderLayout.metadata.offset = 128 + DecoderLayout.statics.length
        /\ DecoderLayout.values.offset =
              DecoderLayout.metadata.offset + DecoderLayout.metadata.length
        /\ DecoderLayout.metadata.length = 512 * cfg.maxCounters
        /\ DecoderLayout.values.length = 128 * cfg.maxCounters
        /\ LET end == DecoderLayout.values.offset + DecoderLayout.values.length IN
           /\ CountersFileSize % PageSize = 0
           /\ end <= CountersFileSize
           /\ CountersFileSize < end + PageSize

\* A reader opened the file of a writer with two counters and a statics map
\* of two records: its values begin behind 128 bytes of statics and 1024
\* bytes of metadata.
LayoutAgreementWitness ==
    /\ opener.pc = "done"
    /\ opener.result = "ok"
    /\ cfg.maxCounters = 2
    /\ Cardinality(DOMAIN cfg.statics) = 2
    /\ DecoderLayout.values.offset = 128 + 128 + 1024
    /\ DecoderLayout.values.length = 256

-----------------------------------------------------------------------------
(* The writer goroutines under a fair scheduler: a goroutine that is       *)
(* inside AddCounter takes its next step at some time.                     *)

\* The steps of an AddCounter call of goroutine t after its entry.
AddSteps(t) ==
    \/ AddLoad(t)
    \/ AddCAS(t)
    \/ AddPutLen(t)
    \/ AddPutBytes(t)
    \/ AddPutValue(t)
    \/ AddPublish(t)

SpecFair == InitW /\ [][WriterStep]_vars /\ \A t \in Writers : WF_vars(AddSteps(t))

\* C34: an AddCounter call is never made to wait (its next step can be
\* taken whatever the other goroutines do); its CAS fails only when the
\* slot's word is no longer the one the call read, and the call then reads
\* the same slot again, at the same metadata and value offsets; and every
\* AddCounter call returns.
AddLockFree ==
    /\ [][\A t \in DOMAIN thr :
             /\ thr[t].pc \in {"add_load", "add_cas", "add_len", "add_bytes", "add_val",
                               "add_pub"} => ENABLED AddSteps(t)
             /\ (thr[t].pc = "add_cas" /\ thr'[t].pc = "add_load") =>
                   /\ idStatus[MetaSlot(thr[t].off)] # thr[t].w
                   /\ thr'[t].off = thr[t].off
                   /\ thr'[t].voff = thr[t].voff
                   /\ thr'[t].id = thr[t].id
                   /\ idStatus' = idStatus]_vars
    /\ \A t \in Writers :
          (thr[t].pc \in {"add_load", "add_cas", "add_len", "add_bytes", "add_val",
                          "add_pub"}) ~> (thr[t].pc = "idle")

\* A call lost its CAS on slot 0, which held a Freed word when the call
\* read it, and is to read slot 0 again while the winner is writing it.
AddLockFreeWitness ==
    \E t, u \in DOMAIN thr :
        /\ t # u
        /\ thr[u].pc = "add_load"
        /\ thr[u].off = 0
        /\ extractStatus(thr[u].w) = counterStatusFreed
        /\ idStatus[0] # thr[u].w
        /\ thr[t].pc \in {"add_len", "add_bytes", "add_val", "add_pub"}
        /\ thr[t].off = 0

-----------------------------------------------------------------------------
(* The reader under a fair scheduler: a goroutine that is inside           *)
(* GetCounterValue or GetCounterLabel takes its next step at some time,    *)
(* whatever the writer goroutines do.                                      *)

\* The steps of a GetCounterValue or GetCounterLabel call after its entry.
LookupSteps == GvLoad \/ GvVal \/ GvCheck \/ GlLoad \/ GlLen \/ GlBytes \/ GlCheck

SpecLookup == Init /\ [][Next]_vars /\ WF_vars(LookupSteps)

\* C35: a GetCounterValue or GetCounterLabel call finds the id-status word
\* changed on its re-read at most once; the load that follows such a change
\* never finds the slot Allocated to the id again: it returns the
\* not-allocated error when the word still carries the id, and otherwise
\* passes on to the next slot or returns not-found; and every call returns.
LookupTerminates ==
    /\ [][/\ rd.again <= 1
          /\ (rd.pc \in {"gv_load", "gl_load"} /\ rd.again = 1 /\ rd' # rd) =>
                IF rd.off >= MetadataLength(cfg.maxCounters)
                THEN rd'.pc = "done" /\ rdResult'.kind = NotFoundError
                ELSE LET w == idStatus[MetaSlot(rd.off)] IN
                     /\ w # AllocatedIDStatus(rd.id)
                     /\ IF extractID(w) = rd.id /\ extractStatus(w) # counterStatusNotUsed
                        THEN rd'.pc = "done" /\ rdResult'.kind = NotAllocatedError
                        ELSE \/ rd'.pc = rd.pc /\ rd'.off = rd.off + metadataRecordLength
                             \/ rd'.pc = "done" /\ rdResult'.kind = NotFoundError]_vars
    /\ (rd.pc \in {"gv_load", "gv_val", "gv_check", "gl_load", "gl_len", "gl_bytes",
                   "gl_check"}) ~> (rd.pc = "done")

\* A lookup found the word changed on its re-read, looked at the slot again
\* and returned the not-allocated error.
LookupTerminatesWitness ==
    /\ rd.pc = "done"
    /\ rd.op \in {"getValue", "getLabel"}
    /\ rd.again = 1
    /\ rdResult.kind = NotAllocatedError

-----------------------------------------------------------------------------
(* Decoder.ForEachCounter with a consumer that always returns true, while  *)
(* a goroutine adds and closes counters.                                   *)

\* The ids of the slots that are Allocated now.
AllocatedIds ==
    {extractID(idStatus[s]) :
        s \in {r \in Slots : extractStatus(idStatus[r]) = counterStatusAllocated}}

\* The entry of ForEachCounter; the caller notes which counters are
\* Allocated at this moment.
ForEachCounterPass ==
    /\ rd.pc = "idle"
    /\ rd' = [IdleReader EXCEPT !.pc = "fe_load", !.op = "forEach", !.alone = AllIdle,
                                !.startIds = AllocatedIds]
    /\ emitted' = <<>>
    /\ rdResult' = NoResult
    /\ UNCHANGED <<lifeVars, userVars, cfg, sets, idStatus, labelLen, labelMem, values, idSequence,
                   counters, thr, issued, hist>>

NextPass ==
    \/ AddCloseStep
    \/ ForEachCounterPass
    \/ FeLoad \/ FeLen \/ FeBytes \/ FeVal \/ FeCheck
    \/ RdDrop

\* The slots and the AddCounter calls of these runs.
PassCounters == 2
PassAdds == 3

\* One goroutine adds and closes counters while the reader iterates.
InitPass ==
    \E m \in 1 .. PassCounters :
        InitWith([maxCounters |-> m, writers |-> {1}, maxAdds |-> PassAdds])

SpecPass == InitPass /\ [][NextPass]_vars

\* C36: when a ForEachCounter pass has returned, every counter that was
\* Allocated at its entry and still is (an id that left Allocated does not
\* come back, so it was Allocated all along) was given to the consumer
\* exactly once, and no id was given to it twice.
PassComplete ==
    (rd.pc = "done" /\ rd.op = "forEach") =>
        /\ \A id \in rd.startIds \cap AllocatedIds :
              Cardinality({k \in 1 .. Len(emitted) : emitted[k].id = id}) = 1
        /\ \A k, l \in 1 .. Len(emitted) : k # l => emitted[k].id # emitted[l].id

\* A pass has returned that gave the consumer the counter of slot 1, which
\* was Allocated all along, while slot 0 was freed and taken again during
\* the pass: slot 0 now holds a counter that was not there at the entry.
PassCompleteWitness ==
    /\ rd.pc = "done"
    /\ rd.op = "forEach"
    /\ cfg.maxCounters = 2
    /\ extractStatus(idStatus[0]) = counterStatusAllocated
    /\ extractID(idStatus[0]) \notin rd.startIds
    /\ Cardinality(rd.startIds) = 2
    /\ extractID(idStatus[1]) \in rd.startIds \cap AllocatedIds
    /\ \E k \in 1 .. Len(emitted) : emitted[k].id = extractID(idStatus[1])

-----------------------------------------------------------------------------
\* C37: a step of an AddCounter call changes the id-status word, the label
\* length, the label bytes and the value of no slot but the one the call
\* acquired; a step of a FreeCounter call changes no label length, label
\* byte or value at all, and the only id-status word it changes is one that
\* is Allocated under the call's id, to Freed under the same id.
AllocationFrame ==
    [][\A t \in DOMAIN thr :
          /\ (thr[t].pc \in {"add_load", "add_cas", "add_len", "add_bytes", "add_val",
                             "add_pub"} /\ thr'[t] # thr[t]) =>
                \A s \in Slots :
                    (\/ idStatus'[s] # idStatus[s]
                     \/ labelLen'[s] # labelLen[s]
                     \/ labelMem'[s] # labelMem[s]
                     \/ values'[s] # values[s]) =>
                        /\ s = MetaSlot(thr[t].off)
                        /\ hist'[thr[t].id].slots = {s}
          /\ (thr[t].pc \in {"free_load", "free_cas"} /\ thr'[t] # thr[t]) =>
                /\ labelLen' = labelLen
                /\ labelMem' = labelMem
                /\ values' = values
                /\ \A s \in Slots :
                      idStatus'[s] # idStatus[s] =>
                          /\ idStatus[s] = makeIDStatus(thr[t].id, counterStatusAllocated)
                          /\ extractID(idStatus'[s]) = thr[t].id
                          /\ extractStatus(idStatus'[s]) = counterStatusFreed]_vars

\* Counter 1 was added into slot 1 and freed: slot 1 is Freed under id 1
\* and still holds the label and the value of counter 1, and slot 0 is
\* Allocated to counter 0 with its label.
AllocationFrameWitness ==
    /\ cfg.maxCounters = 2
    /\ AllIdle
    /\ idStatus[1] = makeIDStatus(1, counterStatusFreed)
    /\ labelLen[1] = Len(LabelFor(1))
    /\ labelMem[1] = LabelFor(1)
    /\ values[1] = InitialValueFor(1)
    /\ idStatus[0] = makeIDStatus(0, counterStatusAllocated)
    /\ labelMem[0] = LabelFor(0)

-----------------------------------------------------------------------------
(* AddCounter's OutOfSlots while three goroutines add and close counters.  *)

SlotCounters == 2
SlotAdds == 3
SlotWriters == {1, 2, 3}

InitSlots ==
    InitWith([maxCounters |-> SlotCounters, writers |-> SlotWriters, maxAdds |-> SlotAdds])

NextSlots ==
    \/ \E t \in DOMAIN thr :
            AddStart(t, LabelFor(NextId(idSequence)), InitialValueFor(NextId(idSequence)))
    \/ \E t \in DOMAIN thr : AddLoad(t)
    \/ \E t \in DOMAIN thr : AddCAS(t)
    \/ \E t \in DOMAIN thr : AddPutLen(t)
    \/ \E t \in DOMAIN thr : AddPutBytes(t)
    \/ \E t \in DOMAIN thr : AddPutValue(t)
    \/ \E t \in DOMAIN thr : AddPublish(t)
    \/ \E t \in DOMAIN thr, id \in DOMAIN counters : CloseStart(t, id)
    \/ \E t \in DOMAIN thr : FreeLoad(t)
    \/ \E t \in DOMAIN thr : FreeCAS(t)

SpecSlots == InitSlots /\ [][NextSlots]_vars

-----------------------------------------------------------------------------
(* An add that fails with OutOfSlots.                                      *)

\* C39: an add that returns OutOfSlots stored nothing in the file: its loads
\* and its return leave every id-status word, label length, label byte and
\* value as they were, it never won a CAS and no Counter handle carries its
\* id; of the Writer it changed idSequence only, by one and at its start, so
\* an add that succeeds carries the number of the adds called before it,
\* the failed ones included.
FailedAddFrame ==
    [][/\ \A t \in DOMAIN thr :
            /\ (thr[t].pc = "idle" /\ thr'[t].pc = "add_load")
               => /\ idSequence' = idSequence + 1
                  /\ thr'[t].id = idSequence'
                  /\ UNCHANGED <<idStatus, labelLen, labelMem, values, counters>>
            /\ (thr[t].pc = "add_load" /\ thr'[t] # thr[t])
               => UNCHANGED <<idStatus, labelLen, labelMem, values, counters, idSequence>>
            /\ (thr[t].pc \in {"add_load", "add_cas", "add_len", "add_bytes", "add_val",
                               "add_pub"}
                /\ hist'[thr[t].id].result = "OutOfSlots")
               => /\ thr[t].pc = "add_load"
                  /\ thr'[t] = IdleThread
                  /\ hist[thr[t].id].slots = {}
                  /\ hist[thr[t].id].held = {}
       /\ \A i \in DOMAIN hist' :
            hist'[i].result = "OutOfSlots"
            => /\ i \notin DOMAIN counters'
               /\ hist'[i].slots = {}
               /\ \A s \in DOMAIN idStatus' : idStatus'[s] \div 256 # i \/ idStatus'[s] = 0
       /\ \A i \in DOMAIN counters' :
            /\ counters'[i].id = i
            /\ i = Cardinality({j \in DOMAIN hist' : j < i})
       /\ idSequence' = Cardinality(DOMAIN hist') - 1
      ]_vars

\* The first add took the only slot, the second one failed, and after the
\* first counter was closed the third add succeeded with the id 2.
FailedAddFrameWitness ==
    /\ cfg.maxCounters = 1
    /\ 0 \in DOMAIN counters
    /\ 1 \in DOMAIN hist /\ hist[1].result = "OutOfSlots"
    /\ 2 \in DOMAIN counters /\ counters[2].id = 2
    /\ idStatus[0] = AllocatedIDStatus(2)

-----------------------------------------------------------------------------
(* NewReaderForFile that fails on the version.                             *)

\* C40: when NewReaderForFile returns Uninitialized or VersionMismatch, the
\* read-only mapping it made for that attempt is released: a failed
\* construction leaves no mapping behind.
FailedOpenHoldsNoMapping ==
    (opener.pc = "done" /\ opener.result \in {UninitializedError, VersionMismatchError})
    => ~opener.mapped

=============================================================================
